---- MODULE Spec2Model ----
(***************************************************************************)
(* Session client of the KoL chat bot (src/src/clients/kol.ts, KoLClient): *)
(* the login sequencer (logIn / loggedIn), the maintenance detector        *)
(* (rolloverCheck and its 60 s timer), the request executor (visitUrl) and *)
(* the exclusive request sequence addToWhitelist under the action lock,    *)
(* run by several concurrent callers on one event loop; then the chat bot  *)
(* (startChatBot, loopChatBot, checkMessages, checkKmails), the function   *)
(* resolveKoLImage and the /whitelist command                              *)
(* (src/src/commands/clan/whitelist.ts), each with the client's requests   *)
(* reduced to what they return.  A step of the model is one                *)
(* run-to-completion slice of the event loop: the code from one resumed    *)
(* await (or one call) up to the next suspended await.                     *)
(*                                                                         *)
(* The remote service is the environment: it decides what every HTTP call  *)
(* returns, when it shows the maintenance banner and when a session ends.  *)
(* mockLoggedIn (kol.ts:172, 210) is a hook that only the test files set;  *)
(* it is false in every run of the program and is left out.                *)
(*                                                                         *)
(* The other components follow, each with a specification of its own:      *)
(* WikiClient.reloadMafiaData (clients/wiki.ts), the alerts of             *)
(* DiscordClient (part_003), the /claim command with its tokens and        *)
(* synchroniseRoles (commands/kol/claim.ts), validPlayerIdentifier         *)
(* (commands/kol/whois.ts), renderSvg (part_002) and logIn of the older    *)
(* client KOLClient (part_003).  The state of each is one record; in a     *)
(* run about another component it is the empty tuple.                      *)
(***************************************************************************)
EXTENDS Integers, Sequences, FiniteSets, TLC

\* ------------------------------------------------------------------ bounds
NumCallers == 2   \* concurrent callers of logIn() / visitUrl()
MaxCalls == 3     \* operations started in one run

MaxCycles == 2    \* poll cycles of the chat bot started in one run
MaxKmails == 1    \* kmails that arrive in one run
MaxMsgs == 2      \* messages in one response of newchatmessages.php
MaxPath == 4      \* pieces of a path given to resolveKoLImage()
NumClans == 2     \* managed clans (ALL_CLANS)
MaxReloads == 3   \* calls of reloadMafiaData() in one run
MaxTime == 6      \* the latest time of a run, in half hours (WikiClient)
                  \*   or half minutes (the older client)
NumUsers == 2     \* Discord users
NumPlayers == 2   \* KoL players
MaxPlayerId == 20 \* the highest player id a token is made for
MaxDigit == 1     \* digits of a one-time code: 0..MaxDigit and 9
MaxIdent == 3     \* characters of an identifier
MaxRenders == 4   \* calls of renderSvg() in one run
MaxAlerts == 4    \* alerts raised in one run

\* one hour (wiki.ts:399: 3600000 ms), in half hours
Hour == 2

\* one minute (part_003:134: 60000 ms), in half minutes
Minute == 2

\* claim.ts:31 (1e6) and claim.ts:35: a one-time code has six digits
Million == 1000000
CodeLength == 6

\* whois.ts:37: {2,29}, the characters after the first one of a username
RestMin == 2
RestMax == 29

Callers == 1..NumCallers
\* ... and those of the runs in which callers queue behind one another
Procs == 1..(NumCallers + 1)
\* session cookies the service can hand out: one for each logIn(), of which an
\* addToWhitelist() makes two
Sessions == 1..(2 * MaxCalls)

\* kmails, by their id
Kmails == 1..MaxKmails

\* Discord users and KoL players, by their ids; 0 stands for null
Users == 1..NumUsers
Players == 1..NumPlayers

\* A chat message of a response (kol.ts:62-69): who.id, msg and type, each of
\* which can be absent.
Messages == [who : {"absent", "7", "-1"}, msg : {"absent", "text"},
             type : {"absent", "public", "private", "system", "event"}]

\* What visitApi("newchatmessages.php") returns (kol.ts:304-310): null (the
\* fallback), a string (a page that is not JSON), or an object, whose msgs and
\* last can be absent.
NoResponse == [kind |-> "null", msgs |-> <<>>, last |-> "absent"]
Responses ==
  [kind : {"null", "text"}, msgs : {<<>>}, last : {"absent"}]
    \cup [kind : {"nomsgs"}, msgs : {<<>>}, last : {"absent", "1"}]
    \cup [kind : {"msgs"},
          msgs : UNION {[1..n -> Messages] : n \in 0..MaxMsgs},
          last : {"absent", "1"}]

VARIABLES
  \* ---- KoLClient fields
  isRollover,         \* kol.ts:174
  postRolloverLatch,  \* kol.ts:177
  credentials,        \* kol.ts:176  [sessionCookies, pwdhash]; 0 = absent
  loginMutex,         \* kol.ts:171: the caller that holds the lock, then
                      \*   those that wait for it, in arrival order
  actionMutex,        \* kol.ts:170: likewise, for addToWhitelist()
  timers,             \* pending setTimeout(rolloverCheck, 60000) callbacks
  tprobes,            \* timer-driven rolloverCheck() calls awaiting the root page
  \* ---- each caller's position in its async call
  pc,                 \* idle | waitAction | waitLock | probe | post | status |
                      \*   rcheck | target
  op,                 \* the entry point the caller last invoked: none | logIn |
                      \*   visitUrl, or the visitUrl() that its addToWhitelist()
                      \*   has reached: joinClan | whitelist
  hsCookie,           \* logIn's local sessionCookies (kol.ts:253), lock holder's
  sent,               \* cookie header of the caller's target request in flight
  \* ---- the remote service
  banner,             \* the root page shows the maintenance banner
  validSess,          \* session cookies the service accepts
  nextSess,           \* next cookie it hands out
  botClan,            \* the clan the bot is in: that of the addToWhitelist() of
                      \*   this caller, 0 at first
  \* ---- what was observed (history; never read by the program)
  calls,              \* operations started
  posts,              \* login POSTs issued
  gets,               \* status GETs of the handshake issued
  emits,              \* "rollover" events emitted
  netOk,              \* no call so far ended in a transport error or bad status
  loginRes,           \* what the caller's logIn() returned: none | true | false
  result,             \* what the caller's operation returned
  tcalls,             \* calls to the target endpoint of the caller's operation
  first,              \* how the first of them was answered: none | page |
                      \*   loggedOut | error
  maintAtCall         \* the caller's logIn() in progress was invoked while
                      \*   isRollover was true

VARIABLES
  \* ---- the chat bot of KoLClient (kol.ts:286-371)
  chatBotStarted,     \* kol.ts:286
  lastFetchedMessages,\* kol.ts:301
  startPc,            \* each caller of startChatBot(): idle | join
  starts,             \* calls of startChatBot() so far
  lpc,                \* the loopChatBot() chain a caller started: none | poll |
                      \*   wait | dead (its promise was rejected)
  msgPc,              \* its checkMessages(): pending | done
  kmPc,               \* its checkKmails(): fetch | delete | done
  fetched,            \* newKmailsResponse of its checkKmails() (kol.ts:341)
  cycles,             \* poll cycles started
  inbox,              \* the kmails in the inbox at the service
  nextKmail,          \* next kmail to arrive
  kmailEmits,         \* "kmail" events emitted, for each kmail
  response,           \* what visitApi() last gave to a checkMessages()
  emitted             \* the events that checkMessages() emitted, in order

chatVars == <<chatBotStarted, lastFetchedMessages, startPc, starts, lpc, msgPc,
              kmPc, fetched, cycles, inbox, nextKmail, kmailEmits, response,
              emitted>>

VARIABLES
  \* ---- resolveKoLImage (kol.ts:140-147)
  path,               \* the argument of the first call
  url,                \* the path, then what each call returned
  applied             \* calls made, each on the result of the one before

imgVars == <<path, url, applied>>

VARIABLES
  \* ---- the /whitelist command (commands/clan/whitelist.ts), each interaction
  cmdPc,              \* idle | player | clan | done
  cmdClan,            \* the clan of ALL_CLANS its loop has reached
  cmdReply,           \* none | noGuild | forbidden | notFound | added
  cmdMissed           \* clans whose whitelist-add request did not complete

cmdVars == <<cmdPc, cmdClan, cmdReply, cmdMissed>>

VARIABLES
  \* ---- the other clients and commands, each a record of its fields (the
  \*      empty tuple in a run that is about another component)
  wiki,               \* WikiClient (clients/wiki.ts:160-168) and the callers
                      \*   of reloadMafiaData()
  alerts,             \* DiscordClient's alerts (alertsQueue, alertsChannel),
                      \*   its ClientReady listener and the channel
  claim,              \* the /claim command (commands/kol/claim.ts): the
                      \*   player table, the guild and its verified role,
                      \*   each execute() and synchroniseRoles()
  token,              \* a verification token of claim.ts: the player and
                      \*   the one-time code it is made of, the token, what
                      \*   checkPlayer() reads from it
  ident,              \* an identifier given to validPlayerIdentifier()
                      \*   (commands/kol/whois.ts) and what it returned
  svg,                \* renderSvg (part_002): converter, timeout, the
                      \*   converters made and the calls in progress
  old                 \* the older client KOLClient (part_003:117-169):
                      \*   _credentials, loginMutex, the callers of logIn()

otherVars == <<wiki, alerts, claim, token, ident, svg, old>>

\* what the client of the login sequencer and the executor leaves alone
auxVars == <<chatVars, imgVars, cmdVars, otherVars>>

\* the state of the login sequencer, the detector and the executor
clientVars == <<isRollover, postRolloverLatch, credentials, loginMutex,
                actionMutex, timers, tprobes, pc, op, hsCookie, sent, banner,
                validSess, nextSess, botClan, calls, posts, gets, emits, netOk,
                loginRes, result, tcalls, first, maintAtCall>>

vars == <<clientVars, auxVars>>

\* the state of KoLClient, of its chat bot and of what is built on them
kolVars == <<clientVars, chatVars, imgVars, cmdVars>>

\* what the chat bot leaves alone
nonChatVars == <<clientVars, imgVars, cmdVars, otherVars>>

detVars == <<isRollover, postRolloverLatch, timers>>
envVars == <<banner, validSess, nextSess>>
\* what the return of a logIn() writes
retVars == <<loginMutex, actionMutex, loginRes, op, pc, result, sent, tcalls,
             maintAtCall>>

\* kol.ts:176  private credentials: KoLCredentials = {}
EmptyCredentials == [sessionCookies |-> 0, pwdhash |-> 0]

\* kol.ts:286, 301  chatBotStarted = false; lastFetchedMessages = "0"
ChatInit ==
  /\ chatBotStarted = FALSE
  /\ lastFetchedMessages = "0"
  /\ startPc = [c \in Callers |-> "idle"]
  /\ starts = 0
  /\ lpc = [c \in Callers |-> "none"]
  /\ msgPc = [c \in Callers |-> "done"]
  /\ kmPc = [c \in Callers |-> "done"]
  /\ fetched = [c \in Callers |-> {}]
  /\ cycles = 0
  /\ inbox = {}
  /\ nextKmail = 1
  /\ kmailEmits = [k \in Kmails |-> 0]
  /\ emitted = <<>>

\* kol.ts:170-177  the field initialisers of KoLClient
ClientInit ==
  /\ isRollover = FALSE
  /\ postRolloverLatch = FALSE
  /\ credentials = EmptyCredentials
  /\ loginMutex = <<>>
  /\ actionMutex = <<>>
  /\ timers = 0
  /\ tprobes = 0
  /\ pc = [c \in Procs |-> "idle"]
  /\ op = [c \in Procs |-> "none"]
  /\ hsCookie = 0
  /\ sent = [c \in Procs |-> 0]
  /\ banner \in BOOLEAN
  /\ validSess = {}
  /\ nextSess = 1
  /\ botClan = 0
  /\ calls = 0
  /\ posts = 0
  /\ gets = 0
  /\ emits = 0
  /\ netOk = TRUE
  /\ loginRes = [c \in Procs |-> "none"]
  /\ result = [c \in Procs |-> "none"]
  /\ tcalls = [c \in Procs |-> 0]
  /\ first = [c \in Procs |-> "none"]
  /\ maintAtCall = [c \in Procs |-> FALSE]

\* no call of resolveKoLImage()
ImageIdle == path = <<>> /\ url = <<>> /\ applied = 0

\* no /whitelist command yet
CommandInit ==
  /\ cmdPc = [c \in Callers |-> "idle"]
  /\ cmdClan = [c \in Callers |-> 0]
  /\ cmdReply = [c \in Callers |-> "none"]
  /\ cmdMissed = [c \in Callers |-> {}]

\* a run is about one component k: the objects of the other components are
\* not constructed in it, their variables hold the empty tuple, and no action
\* of the run reads or changes them
OtherInit(k) ==
  /\ IF k = "wiki" THEN TRUE ELSE wiki = <<>>
  /\ IF k = "alerts" THEN TRUE ELSE alerts = <<>>
  /\ IF k = "claim" THEN TRUE ELSE claim = <<>>
  /\ IF k = "token" THEN TRUE ELSE token = <<>>
  /\ IF k = "ident" THEN TRUE ELSE ident = <<>>
  /\ IF k = "svg" THEN TRUE ELSE svg = <<>>
  /\ IF k = "old" THEN TRUE ELSE old = <<>>

\* KoLClient, its chat bot, resolveKoLImage and the /whitelist command at rest
KolInit ==
  /\ ClientInit /\ ChatInit /\ response = NoResponse /\ ImageIdle
  /\ CommandInit

Init ==
  /\ ClientInit /\ ChatInit /\ response = NoResponse /\ ImageIdle
  /\ CommandInit /\ OtherInit("kol")

\* ------------------------------------------------- the decisions of the code
\* KoLClient.loginMutex.runExclusive (kol.ts:237): the lock is taken at once
\* when free, otherwise the caller queues.
\* (mutant: the lock never makes a caller wait)
LoginLockFree_Always == TRUE
LoginLockFree == loginMutex = <<>>

\* ... and a release hands the lock to the longest waiter.
\* (mutant: the lock is not released)
Waiters_Held == loginMutex
Waiters == Tail(loginMutex)

\* kol.ts:238  if (await this.loggedIn()) return true;
\* (mutant: the validity re-check under the lock is ignored)
AlreadyLoggedIn_Never(ok) == FALSE
AlreadyLoggedIn(ok) == ok

\* kol.ts:239  if (this.isRollover) return false;
\* (mutants: logIn() does not consult the detector, or reads the wrong field)
SkipHandshake_Never == FALSE
SkipHandshake_WrongFlag == postRolloverLatch
SkipHandshake == isRollover

\* kol.ts:452  if (this.isRollover || ...) return fallback;
\* (mutant: visitUrl() does not consult the detector)
ShortCircuit_Never == FALSE
ShortCircuit == isRollover

\* kol.ts:415-417  the latch after rolloverCheck() read a root page
LatchAfterCheck(shown) == postRolloverLatch \/ (isRollover /\ ~shown)

\* kol.ts:419-424  rolloverCheck() re-arms its timer only while the banner shows
\* (mutant: the timer is re-armed whatever the page shows)
Rearm_Always(shown) == 1
Rearm(shown) == IF shown THEN 1 ELSE 0

\* kol.ts:274  this.postRolloverLatch = false;
\* (mutant: the latch is not cleared)
LatchAfterEmit_Kept == TRUE
LatchAfterEmit == FALSE

\* rolloverCheck() after its await, on a root page that arrived (kol.ts:411-424).
RolloverUpdate(shown) ==
  /\ postRolloverLatch' = LatchAfterCheck(shown)
  /\ isRollover' = shown
  /\ timers' = timers + Rearm(shown)

\* rolloverCheck() after its await, on a transport error (kol.ts:425-427).
RolloverError == UNCHANGED detVars

\* kol.ts:269-272, 278  the credentials are assigned after both handshake
\* requests were answered, so the catch finds the ones that were there.
\* (mutant: a failed handshake clears them)
CredentialsOnFailure_Cleared == [sessionCookies |-> 0, pwdhash |-> 0]
CredentialsOnFailure == credentials

\* kol.ts:478-480  catch { return fallback; } around the target call
\* (mutant: the error of the target call is not caught)
OnTargetError_Raise == "raised"
OnTargetError == "fallback"

\* kol.ts:610  this.actionMutex.runExclusive: as for the login lock.
\* (mutant: the lock never makes a caller wait)
ActionLockFree_Always == TRUE
ActionLockFree == actionMutex = <<>>

\* (mutant: a release hands the lock to the latest waiter)
ActionWaiters_Lifo ==
  LET w == Tail(actionMutex) IN [i \in 1..Len(w) |-> w[Len(w) + 1 - i]]
ActionWaiters == Tail(actionMutex)

Range(s) == {s[i] : i \in DOMAIN s}

\* joinClan() (kol.ts:597-607) is true for a body b that shows the clan hall
\* or "a clan you're already in", and addToWhitelist() then goes on to its
\* second visitUrl() (kol.ts:611-612).  joined: the page shows one of the two.
More(c, b, joined) == op[c] = "joinClan" /\ b = "page" /\ joined

\* ... which reaches logIn() unless the detector is down (kol.ts:452).
GoesOn(c, b, joined, down) == More(c, b, joined) /\ ~down

\* The callback of addToWhitelist() returns and runExclusive releases the lock
\* (kol.ts:610-619).
\* (mutant: the early return after a failed joinClan() keeps the lock)
Frees_OnlyAtEnd(c, b, joined, down) ==
  op[c] = "whitelist" \/ (More(c, b, joined) /\ down)
Frees(c, b, joined, down) ==
  op[c] \in {"joinClan", "whitelist"} /\ ~GoesOn(c, b, joined, down)

\* A visitUrl() of caller c returns body b (kol.ts:452, 476, 479), and the code
\* around it runs up to its next await.  A plain visitUrl() ends.  Inside
\* addToWhitelist() either the second visitUrl() starts and enters logIn(), or
\* the callback returns: true after the second visitUrl() whatever it returned,
\* false after a joinClan() that failed.  The released lock goes to the longest
\* waiter, whose callback runs up to its logIn(); with the detector down this
\* visitUrl() returns the fallback at once, joinClan() is false, and so on down
\* the queue.  L: the queue of the login lock before any of this; handed: the
\* caller that was just given that lock and starts its validity probe.
EndVisit(c, b, joined, down, L, handed) ==
  LET frees == Frees(c, b, joined, down)
      skipped == IF frees /\ down THEN Range(ActionWaiters) ELSE {}
      starter == IF GoesOn(c, b, joined, down) THEN <<c>>
                 ELSE IF frees /\ ~down /\ ActionWaiters # <<>>
                 THEN <<Head(ActionWaiters)>>
                 ELSE <<>>
      res == IF op[c] = "visitUrl" \/ b = "raised" THEN b
             ELSE IF More(c, b, joined) \/ op[c] = "whitelist" THEN "true"
             ELSE "false"
  IN
  /\ actionMutex' = IF ~frees THEN actionMutex
                    ELSE IF down THEN <<>> ELSE ActionWaiters
  /\ loginMutex' = L \o starter
  /\ op' = [op EXCEPT ![c] = IF More(c, b, joined) THEN "whitelist" ELSE @]
  /\ pc' = [x \in Procs |->
              IF x \in Range(starter)
              THEN (IF L = <<>> THEN "probe" ELSE "waitLock")
              ELSE IF x = c \/ x \in skipped THEN "idle"
              ELSE IF x \in handed THEN "probe"
              ELSE pc[x]]
  /\ result' = [x \in Procs |->
                  IF x \in Range(starter) THEN "none"
                  ELSE IF x = c THEN res
                  ELSE IF x \in skipped THEN "false"
                  ELSE result[x]]

\* logIn() returns res to caller c (kol.ts:238, 239, 277, 281): runExclusive
\* releases the lock and the longest waiter starts loggedIn(), which issues its
\* validity probe (kol.ts:209-228); c, when inside visitUrl, either returns the
\* fallback or goes on to the target call (kol.ts:452-469) with the credentials
\* creds that this step leaves.  down: isRollover as this step leaves it.
Return(c, res, creds, down) ==
  LET goes == op[c] # "logIn" /\ res
      handed == IF Waiters = <<>> THEN {} ELSE {Head(Waiters)}
  IN
  /\ loginRes' = [loginRes EXCEPT ![c] = IF res THEN "true" ELSE "false"]
  /\ sent' = [sent EXCEPT ![c] = IF goes THEN creds.sessionCookies ELSE 0]
  /\ tcalls' = [tcalls EXCEPT ![c] = IF goes THEN 1 ELSE 0]
  /\ maintAtCall' = [maintAtCall EXCEPT ![c] = FALSE]
  /\ IF op[c] = "logIn" \/ goes
     THEN /\ loginMutex' = Waiters
          /\ pc' = [x \in Procs |->
                      IF x = c THEN (IF goes THEN "target" ELSE "idle")
                      ELSE IF x \in handed THEN "probe"
                      ELSE pc[x]]
          /\ result' = [result EXCEPT ![c] =
                          IF goes THEN "none"
                          ELSE IF res THEN "true" ELSE "false"]
          /\ UNCHANGED <<actionMutex, op>>
     ELSE EndVisit(c, "fallback", FALSE, down, Waiters, handed)

\* KoLClient.loginMutex.runExclusive(...) entered by caller c (kol.ts:237); with
\* the lock free the body starts and loggedIn() issues its validity probe.
Acquire(c) ==
  /\ loginMutex' = Append(loginMutex, c)
  /\ pc' = [pc EXCEPT ![c] = IF LoginLockFree THEN "probe" ELSE "waitLock"]

\* What a new operation of caller c forgets and records.  The callers are
\* interchangeable, so a new operation is given to the first one that has none
\* in progress.
Begin(c, name) ==
  /\ pc[c] = "idle"
  /\ calls < MaxCalls
  /\ \A d \in Procs : d < c => pc[d] # "idle"
  /\ calls' = calls + 1
  /\ op' = [op EXCEPT ![c] = name]
  /\ loginRes' = [loginRes EXCEPT ![c] = "none"]
  /\ tcalls' = [tcalls EXCEPT ![c] = 0]
  /\ sent' = [sent EXCEPT ![c] = 0]
  /\ first' = [first EXCEPT ![c] = "none"]

\* ------------------------------------------------------------- operations
\* logIn() called directly (kol.ts:236-237).
LogIn(c) ==
  /\ Begin(c, "logIn")
  /\ Acquire(c)
  /\ result' = [result EXCEPT ![c] = "none"]
  /\ maintAtCall' = [maintAtCall EXCEPT ![c] = isRollover]
  /\ UNCHANGED <<detVars, envVars, credentials, actionMutex, tprobes, hsCookie,
                 posts, gets, emits, netOk>>
  /\ UNCHANGED <<auxVars, botClan>>

\* visitUrl() / visitApi() called (kol.ts:430-452).
VisitUrl(c) ==
  /\ Begin(c, "visitUrl")
  /\ IF ShortCircuit
     THEN /\ result' = [result EXCEPT ![c] = "fallback"]
          /\ UNCHANGED <<pc, loginMutex>>
     ELSE /\ result' = [result EXCEPT ![c] = "none"]
          /\ Acquire(c)
  /\ UNCHANGED <<detVars, envVars, credentials, actionMutex, tprobes, hsCookie,
                 posts, gets, emits, netOk, maintAtCall>>
  /\ UNCHANGED <<auxVars, botClan>>

\* addToWhitelist() called (kol.ts:609-612): the callback runs at once when the
\* action lock is free, up to the logIn() of joinClan()'s visitUrl(); with the
\* detector down that visitUrl() returns the fallback, joinClan() is false and
\* addToWhitelist() returns false, releasing the lock.
AddToWhitelist(c) ==
  /\ Begin(c, "joinClan")
  /\ IF ~ActionLockFree
     THEN /\ actionMutex' = Append(actionMutex, c)
          /\ pc' = [pc EXCEPT ![c] = "waitAction"]
          /\ result' = [result EXCEPT ![c] = "none"]
          /\ UNCHANGED loginMutex
     ELSE IF ShortCircuit
     THEN /\ result' = [result EXCEPT ![c] = "false"]
          /\ UNCHANGED <<pc, loginMutex, actionMutex>>
     ELSE /\ actionMutex' = Append(actionMutex, c)
          /\ result' = [result EXCEPT ![c] = "none"]
          /\ Acquire(c)
  /\ UNCHANGED <<detVars, envVars, credentials, tprobes, hsCookie, posts, gets,
                 emits, netOk, maintAtCall>>
  /\ UNCHANGED <<auxVars, botClan>>

\* The validity probe of loggedIn() returns (kol.ts:229-233), and logIn() runs on
\* to its next await (kol.ts:238-252).  ok: the service answered 200, which it
\* does only for a session it accepts; otherwise 302 or a transport error.
LoggedInReturn(c, ok) ==
  /\ pc[c] = "probe"
  /\ ok => credentials.sessionCookies \in validSess
  /\ netOk' = (netOk /\ (ok \/ credentials.sessionCookies \notin validSess))
  /\ IF AlreadyLoggedIn(ok)
     THEN /\ Return(c, TRUE, credentials, isRollover)
          /\ UNCHANGED posts
     ELSE IF SkipHandshake
     THEN /\ Return(c, FALSE, credentials, isRollover)
          /\ UNCHANGED posts
     ELSE /\ pc' = [pc EXCEPT ![c] = "post"]
          /\ posts' = posts + 1
          /\ UNCHANGED <<loginMutex, actionMutex, loginRes, op, result, sent,
                         tcalls, maintAtCall>>
  /\ UNCHANGED <<detVars, envVars, credentials, tprobes, hsCookie, gets, emits,
                 calls, first>>
  /\ UNCHANGED <<auxVars, botClan>>

\* The login POST returns (kol.ts:244-268).  "cookie": 302 with a Set-Cookie
\* header; "nocookie": 302 without one; "fail": another status or no answer,
\* and the catch calls rolloverCheck() (kol.ts:278-280).
LoginPostReturn(c, r) ==
  /\ pc[c] = "post"
  /\ CASE r = "cookie" ->
            /\ hsCookie' = nextSess
            /\ nextSess' = nextSess + 1
            /\ validSess' = validSess \cup {nextSess}
            /\ pc' = [pc EXCEPT ![c] = "status"]
            /\ gets' = gets + 1
            /\ UNCHANGED <<netOk, credentials>>
       [] r = "nocookie" ->
            /\ hsCookie' = 0
            /\ pc' = [pc EXCEPT ![c] = "status"]
            /\ gets' = gets + 1
            /\ netOk' = FALSE
            /\ UNCHANGED <<nextSess, validSess, credentials>>
       [] r = "fail" ->
            /\ pc' = [pc EXCEPT ![c] = "rcheck"]
            /\ netOk' = FALSE
            /\ credentials' = CredentialsOnFailure
            /\ UNCHANGED <<hsCookie, nextSess, validSess, gets>>
  /\ UNCHANGED <<detVars, banner, tprobes, loginMutex, actionMutex,
                 op, sent, calls, posts, emits, loginRes, result, tcalls, first,
                 maintAtCall>>
  /\ UNCHANGED <<auxVars, botClan>>

\* The status GET of the handshake returns (kol.ts:256-282).  "pwd": 200 with a
\* token, which the service gives only to a session it accepts; "nopwd": 200
\* whose body has no pwd field; "fail": an error status or no answer.  throws:
\* a listener of "rollover" raises inside emit(), which the catch takes for a
\* failed login.
StatusReturn(c, r, throws) ==
  /\ pc[c] = "status"
  /\ r = "pwd" => hsCookie \in validSess
  /\ throws => (r # "fail" /\ postRolloverLatch)
  /\ IF r = "fail"
     THEN /\ pc' = [pc EXCEPT ![c] = "rcheck"]
          /\ netOk' = FALSE
          /\ credentials' = CredentialsOnFailure
          /\ UNCHANGED <<postRolloverLatch, emits, loginMutex, actionMutex,
                         loginRes, op, result, sent, tcalls, maintAtCall>>
     ELSE LET creds == [sessionCookies |-> hsCookie,
                        pwdhash |-> IF r = "pwd" THEN hsCookie ELSE 0]
          IN
          /\ credentials' = creds
          /\ netOk' = (netOk /\ r = "pwd" /\ ~throws)
          /\ IF postRolloverLatch
             THEN /\ postRolloverLatch' = LatchAfterEmit
                  /\ emits' = emits + 1
             ELSE UNCHANGED <<postRolloverLatch, emits>>
          /\ IF throws
             THEN /\ pc' = [pc EXCEPT ![c] = "rcheck"]
                  /\ UNCHANGED <<loginMutex, actionMutex, loginRes, op, result,
                                 sent, tcalls, maintAtCall>>
             ELSE Return(c, TRUE, creds, isRollover)
  /\ hsCookie' = 0
  /\ UNCHANGED <<isRollover, timers, envVars, tprobes, calls, posts, gets,
                 first>>
  /\ UNCHANGED <<auxVars, botClan>>

\* The rolloverCheck() awaited by logIn()'s catch returns (kol.ts:280-281,
\* 409-428), and logIn() returns false.
FailureCheckReturn(c, arrived) ==
  /\ pc[c] = "rcheck"
  /\ IF arrived THEN RolloverUpdate(banner) ELSE RolloverError
  /\ netOk' = FALSE
  /\ Return(c, FALSE, credentials, IF arrived THEN banner ELSE isRollover)
  /\ UNCHANGED <<envVars, credentials, tprobes, hsCookie, calls, posts, gets,
                 emits, first>>
  /\ UNCHANGED <<auxVars, botClan>>

\* setTimeout(() => this.rolloverCheck(), 60000) fires (kol.ts:423, 409-413).
TimerFire ==
  /\ timers > 0
  /\ timers' = timers - 1
  /\ tprobes' = tprobes + 1
  /\ UNCHANGED <<isRollover, postRolloverLatch, envVars, retVars, credentials,
                 hsCookie, calls, posts, gets, emits, netOk, first>>
  /\ UNCHANGED <<auxVars, botClan>>

\* The root page of a timer-driven rolloverCheck() returns (kol.ts:411-428).
TimerCheckReturn(arrived) ==
  /\ tprobes > 0
  /\ tprobes' = tprobes - 1
  /\ IF arrived THEN RolloverUpdate(banner) ELSE RolloverError
  /\ netOk' = (netOk /\ arrived)
  /\ UNCHANGED <<envVars, retVars, credentials, hsCookie, calls, posts, gets,
                 emits, first>>
  /\ UNCHANGED <<auxVars, botClan>>

\* The target call of visitUrl() returns (kol.ts:454-480).  arrived: the body
\* is the page for a session the service accepts, the logged-out page
\* otherwise, and it is returned as it is; ~arrived: axios raised and the
\* fallback is returned.  joined: the service carried out a join request, or the
\* bot was in that clan already (see More); the answer can still be lost.
TargetReturn(c, arrived, joined) ==
  LET page == IF sent[c] \in validSess THEN "page" ELSE "loggedOut"
      body == IF arrived THEN page ELSE OnTargetError
      more == More(c, body, joined)
  IN
  /\ pc[c] = "target"
  /\ joined => (op[c] = "joinClan" /\ page = "page")
  /\ botClan' = IF joined THEN c ELSE botClan
  /\ EndVisit(c, body, joined, isRollover, loginMutex, {})
  /\ first' = [first EXCEPT ![c] =
                 IF more THEN "none" ELSE IF arrived THEN page ELSE "error"]
  /\ loginRes' = [loginRes EXCEPT ![c] = IF more THEN "none" ELSE @]
  /\ tcalls' = [tcalls EXCEPT ![c] = IF more THEN 0 ELSE @]
  /\ sent' = [sent EXCEPT ![c] = 0]
  /\ netOk' = (netOk /\ arrived)
  /\ UNCHANGED <<detVars, envVars, credentials, tprobes, hsCookie, calls, posts,
                 gets, emits, maintAtCall>>
  /\ UNCHANGED auxVars

\* ------------------------------------------------------ the remote service
\* Nightly maintenance starts or ends.
BannerFlip ==
  /\ banner' = ~banner
  /\ UNCHANGED <<detVars, retVars, credentials, tprobes, hsCookie, validSess,
                 nextSess, calls, posts, gets, emits, netOk, first>>
  /\ UNCHANGED <<auxVars, botClan>>

\* Cookies some later request can still carry: the stored one, the one of the
\* handshake under way and those of the target requests in flight.
InUse == {credentials.sessionCookies, hsCookie} \cup {sent[c] : c \in Procs}

\* The service ends a session (one that no later request carries has no effect).
SessionExpire(s) ==
  /\ s \in validSess \cap InUse
  /\ validSess' = validSess \ {s}
  /\ UNCHANGED <<detVars, retVars, credentials, tprobes, hsCookie, banner,
                 nextSess, calls, posts, gets, emits, netOk, first>>
  /\ UNCHANGED <<auxVars, botClan>>

Next ==
  \/ \E c \in Callers : LogIn(c)
  \/ \E c \in Callers : VisitUrl(c)
  \/ \E c \in Callers, ok \in BOOLEAN : LoggedInReturn(c, ok)
  \/ \E c \in Callers, r \in {"cookie", "nocookie", "fail"} : LoginPostReturn(c, r)
  \/ \E c \in Callers, r \in {"pwd", "nopwd", "fail"}, throws \in BOOLEAN :
       StatusReturn(c, r, throws)
  \/ \E c \in Callers, arrived \in BOOLEAN : FailureCheckReturn(c, arrived)
  \/ TimerFire
  \/ \E arrived \in BOOLEAN : TimerCheckReturn(arrived)
  \/ \E c \in Callers, arrived \in BOOLEAN, joined \in BOOLEAN :
       TargetReturn(c, arrived, joined)
  \/ BannerFlip
  \/ \E s \in validSess : SessionExpire(s)

Spec == Init /\ [][Next]_vars

\* The client with callers of addToWhitelist() and logIn(), up to NumCallers + 1
\* of them, and a service that answers a handshake request in full or not at
\* all and ends no session (a validity probe can still fail, by a transport
\* error).
NextAction ==
  \/ \E c \in Procs : AddToWhitelist(c)
  \/ \E c \in Procs : LogIn(c)
  \/ \E c \in Procs, ok \in BOOLEAN : LoggedInReturn(c, ok)
  \/ \E c \in Procs, r \in {"cookie", "fail"} : LoginPostReturn(c, r)
  \/ \E c \in Procs, r \in {"pwd", "fail"} : StatusReturn(c, r, FALSE)
  \/ \E c \in Procs, arrived \in BOOLEAN : FailureCheckReturn(c, arrived)
  \/ TimerFire
  \/ \E arrived \in BOOLEAN : TimerCheckReturn(arrived)
  \/ \E c \in Procs, arrived \in BOOLEAN, joined \in BOOLEAN :
       TargetReturn(c, arrived, joined)
  \/ BannerFlip

SpecAction == Init /\ [][NextAction]_vars

\* The same without the transport errors of the maintenance probes and with a
\* root page that does not change during the run, ...
NextFair ==
  \/ \E c \in Procs : AddToWhitelist(c)
  \/ \E c \in Procs : LogIn(c)
  \/ \E c \in Procs, ok \in BOOLEAN : LoggedInReturn(c, ok)
  \/ \E c \in Procs, r \in {"cookie", "fail"} : LoginPostReturn(c, r)
  \/ \E c \in Procs, r \in {"pwd", "fail"} : StatusReturn(c, r, FALSE)
  \/ \E c \in Procs : FailureCheckReturn(c, TRUE)
  \/ TimerFire
  \/ TimerCheckReturn(TRUE)
  \/ \E c \in Procs, arrived \in BOOLEAN, joined \in BOOLEAN :
       TargetReturn(c, arrived, joined)

\* A network call that caller c awaits is answered.
Answered(c) ==
  \/ \E ok \in BOOLEAN : LoggedInReturn(c, ok)
  \/ \E r \in {"cookie", "fail"} : LoginPostReturn(c, r)
  \/ \E r \in {"pwd", "fail"} : StatusReturn(c, r, FALSE)
  \/ FailureCheckReturn(c, TRUE)
  \/ \E arrived \in BOOLEAN, joined \in BOOLEAN : TargetReturn(c, arrived, joined)

\* ... where axios resolves or rejects every call in the end and the event loop
\* runs the continuation.
FairAction ==
  Init /\ [][NextFair]_vars /\ \A c \in Procs : WF_vars(Answered(c))

\* ------------------------------------------------------------ the chat bot
\* kol.ts:73-79  isValidMessage
\* (mutant: a message needs only a sender)
IsValidMessage_WhoOnly(m) == m.who # "absent"
IsValidMessage(m) == m.who # "absent" /\ m.msg # "absent"

\* kol.ts:322  Number(msg.who.id), for the ids the messages carry
NumberOf(s) == CASE s = "7" -> 7 [] s = "-1" -> 0 - 1

\* kol.ts:328-335  the topic of the switch
Handled(m) == m.type \in {"public", "private", "system"}
TopicOf(type) ==
  CASE type = "public" -> "public"
    [] type = "private" -> "whisper"
    [] type = "system" -> "system"

\* kol.ts:317-337  filter, map and forEach over the msgs of a response
EmittedFor(msgs) ==
  LET valid == SelectSeq(msgs, IsValidMessage)
      mapped == [i \in 1..Len(valid) |->
                   [type |-> valid[i].type, id |-> NumberOf(valid[i].who),
                    msg |-> valid[i].msg]]
      handled == SelectSeq(mapped, Handled)
  IN [i \in 1..Len(handled) |->
        [topic |-> TopicOf(handled[i].type), id |-> handled[i].id,
         msg |-> handled[i].msg]]

\* A promise of the Promise.all of loop c settles (kol.ts:296-297): a rejection
\* rejects loopChatBot() and nothing awaits or catches it; when both have
\* resolved, wait(3000) starts.
LoopAfter(c, threw, otherDone) ==
  IF lpc[c] # "poll" THEN lpc[c]
  ELSE IF threw THEN "dead"
  ELSE IF otherDone THEN "wait"
  ELSE "poll"

\* loopChatBot() up to its await (kol.ts:296): checkMessages() and checkKmails()
\* issue their requests.
StartCycle(c) ==
  /\ cycles' = cycles + 1
  /\ lpc' = [lpc EXCEPT ![c] = "poll"]
  /\ msgPc' = [msgPc EXCEPT ![c] = "pending"]
  /\ kmPc' = [kmPc EXCEPT ![c] = "fetch"]

\* kol.ts:289  if (this.chatBotStarted) return;
StartedGuard == chatBotStarted

\* startChatBot() called (kol.ts:288-290).
StartChatBot(c) ==
  /\ startPc[c] = "idle"
  /\ starts < MaxCalls
  /\ \A d \in Callers : d < c => startPc[d] # "idle"
  /\ starts' = starts + 1
  /\ startPc' = [startPc EXCEPT ![c] = IF StartedGuard THEN "idle" ELSE "join"]
  /\ UNCHANGED <<chatBotStarted, lastFetchedMessages, lpc, msgPc, kmPc, fetched,
                 cycles, inbox, nextKmail, kmailEmits, response, emitted>>
  /\ UNCHANGED nonChatVars

\* useChatMacro("/join talkie") returns to startChatBot() (kol.ts:290-292),
\* whatever it returns; the loop starts and the flag is set.
JoinReturn(c) ==
  /\ startPc[c] = "join"
  /\ cycles < MaxCycles
  /\ startPc' = [startPc EXCEPT ![c] = "idle"]
  /\ StartCycle(c)
  /\ chatBotStarted' = TRUE
  /\ UNCHANGED <<lastFetchedMessages, starts, fetched, inbox, nextKmail,
                 kmailEmits, response, emitted>>
  /\ UNCHANGED nonChatVars

\* visitApi("newchatmessages.php") returns r to checkMessages() of loop c
\* (kol.ts:312-337).  An object without msgs makes .filter raise a TypeError.
CheckMessagesReturn(c, r) ==
  /\ msgPc[c] = "pending"
  /\ msgPc' = [msgPc EXCEPT ![c] = "done"]
  /\ response' = r
  /\ lastFetchedMessages' =
       IF r.kind \in {"null", "text"} THEN lastFetchedMessages ELSE r.last
  /\ emitted' = IF r.kind = "msgs" THEN EmittedFor(r.msgs) ELSE <<>>
  /\ lpc' = [lpc EXCEPT ![c] =
               LoopAfter(c, r.kind = "nomsgs", kmPc[c] = "done")]
  /\ UNCHANGED <<chatBotStarted, startPc, starts, kmPc, fetched, cycles, inbox,
                 nextKmail, kmailEmits>>
  /\ UNCHANGED nonChatVars

\* visitApi("api.php", what: kmail) returns to checkKmails() of loop c
\* (kol.ts:341-365).  listed: the answer is the array of the kmails in the inbox;
\* otherwise it is the fallback or no array.  With a non-empty array the delete
\* request is issued.
KmailFetchReturn(c, listed) ==
  LET got == IF listed THEN inbox ELSE {} IN
  /\ kmPc[c] = "fetch"
  /\ fetched' = [fetched EXCEPT ![c] = got]
  /\ kmPc' = [kmPc EXCEPT ![c] = IF got = {} THEN "done" ELSE "delete"]
  /\ lpc' = [lpc EXCEPT ![c] =
               IF got = {} THEN LoopAfter(c, FALSE, msgPc[c] = "done") ELSE @]
  /\ UNCHANGED <<chatBotStarted, lastFetchedMessages, startPc, starts, msgPc,
                 cycles, inbox, nextKmail, kmailEmits, response, emitted>>
  /\ UNCHANGED nonChatVars

\* kol.ts:367-370  every fetched kmail is emitted once the delete request has
\* returned, whatever it returned.
EmitsAfterDelete(c, k) == IF k \in fetched[c] THEN 1 ELSE 0

\* visitUrl("messages.php") of checkKmails() returns (kol.ts:368-370).
\* deleted: the service carried the request out; otherwise the request failed
\* or visitUrl() returned the fallback.
KmailDeleteReturn(c, deleted) ==
  /\ kmPc[c] = "delete"
  /\ inbox' = IF deleted THEN inbox \ fetched[c] ELSE inbox
  /\ kmailEmits' = [k \in Kmails |-> kmailEmits[k] + EmitsAfterDelete(c, k)]
  /\ kmPc' = [kmPc EXCEPT ![c] = "done"]
  /\ fetched' = [fetched EXCEPT ![c] = {}]
  /\ lpc' = [lpc EXCEPT ![c] = LoopAfter(c, FALSE, msgPc[c] = "done")]
  /\ UNCHANGED <<chatBotStarted, lastFetchedMessages, startPc, starts, msgPc,
                 cycles, nextKmail, response, emitted>>
  /\ UNCHANGED nonChatVars

\* kol.ts:297-298  wait(3000) is over and loopChatBot() calls itself.
WaitDone(c) ==
  /\ lpc[c] = "wait"
  /\ cycles < MaxCycles
  /\ StartCycle(c)
  /\ UNCHANGED <<chatBotStarted, lastFetchedMessages, startPc, starts, fetched,
                 inbox, nextKmail, kmailEmits, response, emitted>>
  /\ UNCHANGED nonChatVars

\* A kmail arrives in the inbox.
KmailArrives ==
  /\ nextKmail \in Kmails
  /\ inbox' = inbox \cup {nextKmail}
  /\ nextKmail' = nextKmail + 1
  /\ UNCHANGED <<chatBotStarted, lastFetchedMessages, startPc, starts, lpc,
                 msgPc, kmPc, fetched, cycles, kmailEmits, response, emitted>>
  /\ UNCHANGED nonChatVars

\* The fallback, an object without msgs and one with no message in it.
PlainResponses ==
  {r \in Responses : r.msgs = <<>> /\ r.kind # "text" /\ r.last = "absent"}

\* The chat bot with its callers and the kmails.
NextChat ==
  \/ \E c \in Callers : StartChatBot(c)
  \/ \E c \in Callers : JoinReturn(c)
  \/ \E c \in Callers, r \in PlainResponses : CheckMessagesReturn(c, r)
  \/ \E c \in Callers, listed \in BOOLEAN : KmailFetchReturn(c, listed)
  \/ \E c \in Callers, deleted \in BOOLEAN : KmailDeleteReturn(c, deleted)
  \/ \E c \in Callers : WaitDone(c)
  \/ KmailArrives

SpecChat == Init /\ [][NextChat]_vars

\* The chat bot started once, in a run where newchatmessages.php gives one
\* answer, any of Responses, and no kmail arrives.
InitMessages ==
  /\ ClientInit /\ ChatInit /\ response \in Responses
  /\ ImageIdle /\ CommandInit /\ OtherInit("kol")

NextMessages ==
  \/ StartChatBot(1)
  \/ JoinReturn(1)
  \/ CheckMessagesReturn(1, response)
  \/ KmailFetchReturn(1, FALSE)
  \/ WaitDone(1)

SpecMessages == InitMessages /\ [][NextMessages]_vars

\* --------------------------------------------------------- resolveKoLImage
\* A path is a sequence of pieces; the two regular expressions of
\* resolveKoLImage() read the first pieces of it.
Pieces == {"http:", "https:", "HTTPS:", "/", "iii", "images", "x"}
Paths == UNION {[1..n -> Pieces] : n \in 0..MaxPath}

\* kol.ts:143  "https://s3.amazonaws.com/images.kingdomofloathing.com"
ImageHost == <<"https:", "/", "/", "x">>

StartsWith(s, p) == Len(s) >= Len(p) /\ SubSeq(s, 1, Len(p)) = p

\* kol.ts:141  /^https?:\/\//i.test(path)
\* (mutant: the test is case-sensitive)
IsAbsolute_CaseSensitive(s) ==
  \E scheme \in {"http:", "https:"} : StartsWith(s, <<scheme, "/", "/">>)
IsAbsolute(s) ==
  \E scheme \in {"http:", "https:", "HTTPS:"} :
    StartsWith(s, <<scheme, "/", "/">>)

\* kol.ts:144  path.replace(/^\/(iii|images)/, "")
StripImages(s) ==
  IF \E d \in {"iii", "images"} : StartsWith(s, <<"/", d>>)
  THEN SubSeq(s, 3, Len(s))
  ELSE s

\* kol.ts:140-147
ResolveKoLImage(s) == IF ~IsAbsolute(s) THEN ImageHost \o StripImages(s) ELSE s

\* resolveKoLImage() called on the result so far.
Resolve ==
  /\ applied < 2
  /\ url' = ResolveKoLImage(url)
  /\ applied' = applied + 1
  /\ UNCHANGED <<path, clientVars, chatVars, cmdVars, otherVars>>

InitImage ==
  /\ ClientInit /\ ChatInit /\ response = NoResponse /\ CommandInit
  /\ OtherInit("kol")
  /\ path \in Paths /\ url = path /\ applied = 0

NextImage == Resolve

SpecImage == InitImage /\ [][NextImage]_vars

\* ---------------------------------------------------- the /whitelist command
\* whitelist.ts:58-60  the reply after the loop over ALL_CLANS
ReplyAfterLoop == "added"

\* execute() called for interaction c (whitelist.ts:23-49).  member: the
\* interaction comes from a guild; permitted: the member has a permitted role.
Execute(c, member, permitted) ==
  /\ cmdPc[c] = "idle"
  /\ \A d \in Callers : d < c => cmdPc[d] # "idle"
  /\ cmdPc' = [cmdPc EXCEPT ![c] = IF member /\ permitted THEN "player"
                                   ELSE "done"]
  /\ cmdReply' = [cmdReply EXCEPT ![c] = IF ~member THEN "noGuild"
                                         ELSE IF ~permitted THEN "forbidden"
                                         ELSE "none"]
  /\ UNCHANGED <<cmdClan, cmdMissed, clientVars, chatVars, imgVars, otherVars>>

\* getPartialPlayer() returns (whitelist.ts:47-56); with a player the loop calls
\* addToWhitelist() for the first clan.
PlayerReturn(c, found) ==
  /\ cmdPc[c] = "player"
  /\ cmdPc' = [cmdPc EXCEPT ![c] = IF found THEN "clan" ELSE "done"]
  /\ cmdReply' = [cmdReply EXCEPT ![c] = IF found THEN "none" ELSE "notFound"]
  /\ cmdClan' = [cmdClan EXCEPT ![c] = IF found THEN 1 ELSE 0]
  /\ UNCHANGED <<cmdMissed, clientVars, chatVars, imgVars, otherVars>>

\* addToWhitelist(player.id, clan.id) returns to the loop (whitelist.ts:55-61,
\* kol.ts:609-620): false when joinClan() was false, true otherwise, whether
\* the whitelist-add visitUrl() returned a page (added) or the fallback.  The
\* loop does not read the value; after the last clan the reply is sent.
AddToWhitelistReturn(c, joined, added) ==
  /\ cmdPc[c] = "clan"
  /\ added => joined
  /\ cmdMissed' = [cmdMissed EXCEPT ![c] =
                     IF added THEN @ ELSE @ \cup {cmdClan[c]}]
  /\ IF cmdClan[c] < NumClans
     THEN /\ cmdClan' = [cmdClan EXCEPT ![c] = @ + 1]
          /\ UNCHANGED <<cmdPc, cmdReply>>
     ELSE /\ cmdPc' = [cmdPc EXCEPT ![c] = "done"]
          /\ cmdReply' = [cmdReply EXCEPT ![c] = ReplyAfterLoop]
          /\ UNCHANGED cmdClan
  /\ UNCHANGED <<clientVars, chatVars, imgVars, otherVars>>

\* The /whitelist command run for several interactions at a time.
NextCommand ==
  \/ \E c \in Callers, member, permitted \in BOOLEAN :
       Execute(c, member, permitted)
  \/ \E c \in Callers, found \in BOOLEAN : PlayerReturn(c, found)
  \/ \E c \in Callers, joined, added \in BOOLEAN :
       AddToWhitelistReturn(c, joined, added)

SpecCommand == Init /\ [][NextCommand]_vars

TypeOKChat ==
  /\ chatBotStarted \in BOOLEAN
  /\ lastFetchedMessages \in {"0", "absent", "1"}
  /\ startPc \in [Callers -> {"idle", "join"}]
  /\ lpc \in [Callers -> {"none", "poll", "wait", "dead"}]
  /\ msgPc \in [Callers -> {"pending", "done"}]
  /\ kmPc \in [Callers -> {"fetch", "delete", "done"}]
  /\ fetched \in [Callers -> SUBSET Kmails]
  /\ inbox \subseteq Kmails
  /\ kmailEmits \in [Kmails -> 0..MaxCycles]
  /\ response \in Responses
  /\ starts \in 0..MaxCalls /\ cycles \in 0..MaxCycles

\* The client with callers of logIn() only and the whole service, but for the
\* end of sessions (a validity probe can still fail, by a transport error), ...
NextLogin ==
  \/ \E c \in Callers : LogIn(c)
  \/ \E c \in Callers, ok \in BOOLEAN : LoggedInReturn(c, ok)
  \/ \E c \in Callers, r \in {"cookie", "nocookie", "fail"} :
       LoginPostReturn(c, r)
  \/ \E c \in Callers, r \in {"pwd", "nopwd", "fail"}, throws \in BOOLEAN :
       StatusReturn(c, r, throws)
  \/ \E c \in Callers, arrived \in BOOLEAN : FailureCheckReturn(c, arrived)
  \/ TimerFire
  \/ \E arrived \in BOOLEAN : TimerCheckReturn(arrived)
  \/ BannerFlip

\* A network call that the logIn() of caller c awaits is answered.
LoginAnswered(c) ==
  \/ \E ok \in BOOLEAN : LoggedInReturn(c, ok)
  \/ \E r \in {"cookie", "nocookie", "fail"} : LoginPostReturn(c, r)
  \/ \E r \in {"pwd", "nopwd", "fail"}, throws \in BOOLEAN :
       StatusReturn(c, r, throws)
  \/ \E arrived \in BOOLEAN : FailureCheckReturn(c, arrived)

\* ... where axios resolves or rejects every call of logIn() in the end.
FairLogin ==
  Init /\ [][NextLogin]_vars /\ \A c \in Callers : WF_vars(LoginAnswered(c))

TypeOK ==
  /\ isRollover \in BOOLEAN /\ postRolloverLatch \in BOOLEAN
  /\ credentials \in [sessionCookies : {0} \cup Sessions,
                      pwdhash : {0} \cup Sessions]
  /\ timers \in 0..1 /\ tprobes \in 0..1
  /\ pc \in [Procs -> {"idle", "waitAction", "waitLock", "probe", "post",
                         "status", "rcheck", "target"}]
  /\ op \in [Procs -> {"none", "logIn", "visitUrl", "joinClan", "whitelist"}]
  /\ result \in [Procs -> {"none", "true", "false", "fallback", "page",
                             "loggedOut"}]
  /\ loginRes \in [Procs -> {"none", "true", "false"}]
  /\ posts \in 0..(2 * MaxCalls) /\ gets \in 0..(2 * MaxCalls)
  /\ emits \in 0..(2 * MaxCalls)
  /\ validSess \subseteq Sessions /\ nextSess \in 1..(2 * MaxCalls + 1)
  /\ botClan \in {0} \cup Procs

\* ===================================================================== claims
\* No session the service handed out has been ended by it.
NoExpiry == validSess = 1..(nextSess - 1)

\* Caller c is inside logIn()'s critical section.
InLogin(c) == pc[c] \in {"probe", "post", "status", "rcheck"}

\* HTTP requests awaiting their answer.
InFlight ==
  Cardinality({c \in Callers : InLogin(c) \/ pc[c] = "target"}) + tprobes

\* The step is the return of caller c's logIn().
LogInReturns(c) == loginRes[c] = "none" /\ loginRes'[c] # "none"

\* C1: callers that invoke logIn() while the stored credentials are invalid, with
\* every handshake request succeeding (and, as the claim's premise has it, the
\* validity probe failing only for invalid credentials and no session ended by
\* the service meanwhile), cause exactly one login POST and one status GET in
\* total, and every one of the calls returns true.
C1_SingleHandshake ==
  (netOk /\ NoExpiry) =>
    /\ posts <= 1 /\ gets <= 1
    /\ \A c \in Callers : loginRes[c] # "false"
    /\ (\A c \in Callers : op[c] = "logIn" /\ pc[c] = "idle") =>
         (posts = 1 /\ gets = 1 /\ \A c \in Callers : result[c] = "true")

C1_Witness ==
  /\ netOk /\ NoExpiry /\ calls = NumCallers
  /\ \A c \in Callers : op[c] = "logIn" /\ pc[c] = "idle" /\ result[c] = "true"
  /\ posts = 1 /\ gets = 1

\* C2: at most one logIn() is inside the critical section (validity re-check,
\* handshake, credential replacement, maintenance probe after a failure), and it
\* is the holder of the lock; every other caller of logIn() is queued on the lock
\* with no result yet.
C2_LoginMutex ==
  /\ \A c, d \in Callers : (InLogin(c) /\ InLogin(d)) => c = d
  /\ \A c \in Callers : InLogin(c) => (loginMutex # <<>> /\ Head(loginMutex) = c)
  /\ \A c \in Callers :
       pc[c] = "waitLock" <=> \E i \in 2..Len(loginMutex) : loginMutex[i] = c
  /\ \A c \in Callers :
       pc[c] = "waitLock" => (loginRes[c] = "none" /\ result[c] = "none")

C2_Witness == \E c, d \in Callers : pc[c] = "rcheck" /\ pc[d] = "waitLock"

\* C3 (as claimed): a finished request whose first target call was answered by
\* the logged-out page, in a run where no call failed (so the re-login and the
\* second call succeed), made exactly two target calls and did not return the
\* logged-out body of the first.
C3_RetryAfterLoggedOut ==
  \A c \in Callers :
    (op[c] = "visitUrl" /\ pc[c] = "idle" /\ first[c] = "loggedOut" /\ netOk) =>
      (tcalls[c] = 2 /\ result[c] # "loggedOut")

\* C4 (as claimed): such a request that does not end with the page of a
\* successful retry (the retry was answered by the logged-out page too) returns
\* the fallback, after exactly two target calls.
C4_FallbackAfterOneRetry ==
  \A c \in Callers :
    (op[c] = "visitUrl" /\ pc[c] = "idle" /\ first[c] = "loggedOut" /\ netOk
       /\ result[c] # "page") =>
      (result[c] = "fallback" /\ tcalls[c] = 2)

\* C5: a visitUrl() / visitApi() invoked while isRollover is true returns the
\* fallback at once and puts no HTTP request in flight: no validity probe, no
\* handshake request, no target call.
C5_MaintenanceShortCircuit ==
  [][\A c \in Callers :
       (isRollover /\ VisitUrl(c)) =>
         /\ pc'[c] = "idle" /\ result'[c] = "fallback" /\ loginRes'[c] = "none"
         /\ InFlight' = InFlight /\ posts' = posts /\ gets' = gets
         /\ tcalls'[c] = 0]_vars

C5_Witness ==
  /\ isRollover
  /\ \E c \in Callers : /\ op[c] = "visitUrl" /\ pc[c] = "idle"
                        /\ result[c] = "fallback" /\ loginRes[c] = "none"

\* C6 (as claimed): a logIn() invoked while isRollover is true returns false.
C6_FalseInMaintenance ==
  [][\A c \in Callers :
       (maintAtCall[c] /\ LogInReturns(c)) => loginRes'[c] = "false"]_vars

\* C6 (amended): when logIn()'s validity probe returns while isRollover is true,
\* logIn() returns in that step without issuing the login POST, and it returns
\* false unless the probe succeeded (the stored session is still accepted).
C6_FalseAfterFailedProbe ==
  [][\A c \in Callers :
       (pc[c] = "probe" /\ pc'[c] # "probe" /\ isRollover) =>
         /\ LogInReturns(c) /\ posts' = posts /\ pc'[c] # "post"
         /\ loginRes'[c] = "true" => credentials.sessionCookies \in validSess]_vars

C6_Witness ==
  /\ isRollover /\ posts = 1 /\ calls = 2
  /\ \A c \in {1, 2} : op[c] = "logIn" /\ pc[c] = "idle" /\ result[c] = "false"

\* C7: no handshake request (login POST, status GET) is in flight, hence none is
\* issued, while isRollover is true.
C7_NoHandshakeInMaintenance ==
  \A c \in Callers : pc[c] \in {"post", "status"} => ~isRollover

C7_Witness == postRolloverLatch /\ \E c \in Callers : pc[c] = "status"

\* C8 (as claimed): while the root page shows the banner no login POST is issued
\* and every logIn() that returns returns false.
C8_NoLoginWhileBanner ==
  [][banner =>
       /\ posts' = posts
       /\ \A c \in Callers : LogInReturns(c) => loginRes'[c] = "false"]_vars

\* C8 (amended): while the root page shows the banner and the detector has
\* recorded it (isRollover is true), no handshake request is issued and every
\* logIn() that returns returns false, unless its validity probe succeeded.
C8_NoLoginWhileBannerRecorded ==
  [][(banner /\ isRollover) =>
       /\ posts' = posts /\ gets' = gets
       /\ \A c \in Callers :
            LogInReturns(c) =>
              \/ loginRes'[c] = "false"
              \/ pc[c] = "probe" /\ credentials.sessionCookies \in validSess]_vars

C8_Witness ==
  /\ banner /\ isRollover /\ timers = 1 /\ posts = 1 /\ calls = 2
  /\ op[1] = "logIn" /\ pc[1] = "idle" /\ result[1] = "false"
  /\ op[2] = "logIn" /\ pc[2] = "idle" /\ result[2] = "false"
  /\ credentials = EmptyCredentials

\* C9 (as claimed): whenever isRollover is true a maintenance probe is pending on
\* the timer or in flight.
C9_ProbingContinues ==
  isRollover => (timers > 0 \/ tprobes > 0 \/ \E c \in Callers : pc[c] = "rcheck")

\* C10 (as claimed): a logIn() that returns true while the resume signal is
\* pending emits "rollover".
C10_NextTrueEmits ==
  [][\A c \in Callers :
       (LogInReturns(c) /\ loginRes'[c] = "true" /\ postRolloverLatch) =>
         emits' = emits + 1]_vars

\* C10 (amended): a logIn() that returns true after a handshake emits "rollover"
\* exactly once if the resume signal is pending and not at all otherwise, and
\* leaves the signal cleared; a logIn() that returns on its validity probe emits
\* nothing and leaves the signal as it is; nothing else emits, and the signal is
\* set only by a probe that observes Down -> Up.
C10_ResumeSignal ==
  [][/\ \A c \in Callers :
          (pc[c] = "status" /\ LogInReturns(c) /\ loginRes'[c] = "true") =>
            /\ ~postRolloverLatch'
            /\ emits' = emits + (IF postRolloverLatch THEN 1 ELSE 0)
     /\ \A c \in Callers :
          (pc[c] = "probe" /\ LogInReturns(c)) =>
            (emits' = emits /\ postRolloverLatch' = postRolloverLatch)
     /\ emits' # emits =>
          /\ emits' = emits + 1 /\ postRolloverLatch /\ ~postRolloverLatch'
          /\ \E c \in Callers : pc[c] = "status"
     /\ (postRolloverLatch' /\ ~postRolloverLatch) =>
          (isRollover /\ ~isRollover')]_vars

C10_Witness ==
  /\ emits = 1 /\ ~postRolloverLatch /\ ~isRollover
  /\ \E c \in Callers : pc[c] = "status"

\* Caller c is inside the callback of its addToWhitelist().
InSequence(c) ==
  op[c] \in {"joinClan", "whitelist"} /\ pc[c] \notin {"idle", "waitAction"}

\* C11: at most one addToWhitelist() is inside its callback, and it holds the
\* action lock from its first request to its return, logins included; a caller
\* that waits for the lock has issued no request yet: no validity probe, no
\* handshake request, no target call.
C11_SequencesNotInterleaved ==
  /\ \A c, d \in Procs : (InSequence(c) /\ InSequence(d)) => c = d
  /\ \A c \in Procs :
       InSequence(c) <=> (actionMutex # <<>> /\ Head(actionMutex) = c)
  /\ \A c \in Procs :
       pc[c] = "waitAction" <=> \E i \in 2..Len(actionMutex) : actionMutex[i] = c
  /\ \A c \in Procs :
       pc[c] = "waitAction" =>
         /\ op[c] = "joinClan" /\ result[c] = "none" /\ loginRes[c] = "none"
         /\ tcalls[c] = 0 /\ sent[c] = 0 /\ c \notin Range(loginMutex)

C11_Witness ==
  \E c, d \in Procs :
    /\ op[c] = "whitelist" /\ pc[c] = "target" /\ posts = 2
    /\ pc[d] = "waitAction"

\* C12: no failure of a network call escapes visitUrl() or logIn().  A finished
\* visitUrl() has returned a body or the fallback and a finished logIn() a
\* boolean; a target call that ends in a transport error makes visitUrl()
\* return the fallback; the maintenance probe after a failed handshake,
\* answered or not, is followed by logIn() returning false (and visitUrl() the
\* fallback); a failed validity probe leads to the handshake or to false.
C12_NoErrorEscapes ==
  [][\A c \in Callers :
       /\ result'[c] \in
            (IF op'[c] = "logIn" THEN {"none", "true", "false"}
             ELSE IF op'[c] = "visitUrl"
             THEN {"none", "fallback", "page", "loggedOut"}
             ELSE {"none"})
       /\ loginRes'[c] \in {"none", "true", "false"}
       /\ (pc[c] # "idle" /\ pc'[c] = "idle") => result'[c] # "none"
       /\ (pc[c] = "target" /\ first'[c] = "error") =>
            (pc'[c] = "idle" /\ result'[c] = "fallback")
       /\ (pc[c] = "rcheck" /\ pc'[c] # "rcheck") =>
            /\ pc'[c] = "idle" /\ loginRes'[c] = "false"
            /\ result'[c] = (IF op[c] = "logIn" THEN "false" ELSE "fallback")
       /\ (pc[c] = "probe" /\ pc'[c] # "probe"
             /\ credentials.sessionCookies \notin validSess) =>
            \/ pc'[c] = "post"
            \/ pc'[c] = "idle" /\ loginRes'[c] = "false"]_vars

C12_Witness ==
  \E c \in Callers :
    /\ op[c] = "visitUrl" /\ pc[c] = "idle"
    /\ first[c] = "error" /\ result[c] = "fallback" /\ loginRes[c] = "true"
    /\ tcalls[c] = 1

\* C13: a handshake request that fails (login POST not answered by a redirect,
\* status GET answered by an error or not at all) leaves the stored credentials
\* as they are and sends logIn() to one maintenance probe, issued and awaited
\* while the caller still holds the login lock; when that probe returns, logIn()
\* returns false and releases the lock.  From taking the lock to that return no
\* step changes the credentials.
C13_FailedHandshake ==
  [][\A c \in Callers :
       /\ (pc[c] = "post" /\ pc'[c] \notin {"post", "status"}) => pc'[c] = "rcheck"
       /\ (pc[c] \in {"post", "status"} /\ pc'[c] = "rcheck" /\ emits' = emits) =>
            /\ credentials' = credentials
            /\ loginMutex' = loginMutex
            /\ loginMutex # <<>> /\ Head(loginMutex) = c
            /\ loginRes'[c] = "none" /\ InFlight' = InFlight
       /\ pc[c] = "rcheck" =>
            /\ credentials' = credentials
            /\ loginMutex # <<>> /\ Head(loginMutex) = c
            /\ pc'[c] # "rcheck" =>
                 /\ LogInReturns(c) /\ loginRes'[c] = "false"
                 /\ c \notin Range(loginMutex')]_vars

C13_Witness ==
  \E c \in Callers :
    /\ op[c] = "logIn" /\ pc[c] = "idle" /\ result[c] = "false"
    /\ posts = 2 /\ gets = 2 /\ nextSess = 3 /\ emits = 0
    /\ credentials = [sessionCookies |-> 1, pwdhash |-> 1]
    /\ loginMutex = <<>>

\* C14 (as claimed): when the status GET of the handshake is answered without a
\* request token, logIn() does not return true and the stored credentials stay
\* what they were.
C14_MissingTokenFails ==
  [][\A c \in Callers :
       StatusReturn(c, "nopwd", FALSE) =>
         (loginRes'[c] # "true" /\ credentials' = credentials)]_vars

\* C15: the stored credentials change only in a step of the caller that holds
\* the login lock, the one in which the status GET of its handshake is answered;
\* no other step (validity probe, login POST, maintenance probe, timer, target
\* call, entry of an operation) writes them.
C15_WrittenUnderLock ==
  [][credentials' # credentials =>
       \E c \in Callers :
         /\ loginMutex # <<>> /\ Head(loginMutex) = c
         /\ pc[c] = "status" /\ pc'[c] # "status"
         /\ credentials'.sessionCookies = hsCookie]_vars

C15_Witness ==
  /\ credentials.sessionCookies = 2 /\ posts = 2
  /\ \E c, d \in Callers :
       /\ pc[c] = "target" /\ sent[c] = 1
       /\ op[d] = "logIn" /\ pc[d] = "idle" /\ result[d] = "true"

\* C16 (as claimed): the stored cookie and request token are both absent, or
\* both present and of the same handshake.
C16_CredentialsWhole ==
  \/ credentials = EmptyCredentials
  \/ /\ credentials.sessionCookies # 0
     /\ credentials.pwdhash = credentials.sessionCookies

\* C17 (as claimed): the first visitUrl() of a run, made with empty credentials,
\* that returns a page of the service has called the target endpoint twice, and
\* the first of these calls, made without credentials, was answered by the
\* logged-out page.
C17_CallFirstThenLogin ==
  \A c \in Callers :
    (calls = 1 /\ op[c] = "visitUrl" /\ pc[c] = "idle" /\ result[c] = "page") =>
      (tcalls[c] = 2 /\ first[c] = "loggedOut" /\ posts = 1 /\ gets = 1)

\* The caller that holds lock m, if any, and the queue behind it.
Holder(m) == IF m = <<>> THEN {} ELSE {Head(m)}
Rest(m) == IF m = <<>> THEN <<>> ELSE Tail(m)

\* C18: the two locks cannot block each other.  A caller waits for the action
\* lock only at the entry of addToWhitelist(), holding no lock; the login lock
\* is asked for, held and released inside the callback that holds the action
\* lock, or by a caller that holds neither; and with every network call answered
\* in the end, every caller that waits for either lock gets it.
C18_NoLockDeadlock ==
  /\ [](\A c \in Procs :
          /\ pc[c] = "waitAction" =>
               (c \notin Range(loginMutex) /\ c \notin Holder(actionMutex))
          /\ c \in Range(loginMutex) =>
               (op[c] = "logIn" \/ c \in Holder(actionMutex)))
  /\ \A c \in Procs :
       (pc[c] \in {"waitAction", "waitLock"}) ~>
         (pc[c] \notin {"waitAction", "waitLock"})

C18_Witness ==
  \E c, d, x \in Procs :
    /\ c \in Holder(actionMutex) /\ op[c] = "whitelist"
    /\ pc[c] = "waitLock" /\ loginRes[c] = "none"
    /\ pc[d] = "waitAction"
    /\ x \in Holder(loginMutex) /\ op[x] = "logIn"

\* Lock queue m becomes m2 by at most one release, which removes the head, and
\* at most one new request, which joins the end.
QueueStep(m, m2) ==
  \E s \in {m, Rest(m)}, n \in {<<>>} \cup {<<x>> : x \in Procs \ Range(m)} :
    m2 = s \o n

C20_ValidCredentialsKept ==
  [][\A c \in Callers :
       LoggedInReturn(c, TRUE) =>
         /\ LogInReturns(c) /\ loginRes'[c] = "true"
         /\ pc'[c] \in {"idle", "target"}
         /\ posts' = posts /\ gets' = gets /\ emits' = emits
         /\ credentials' = credentials
         /\ isRollover' = isRollover
         /\ postRolloverLatch' = postRolloverLatch]_vars

C20_Witness ==
  /\ postRolloverLatch /\ ~isRollover /\ emits = 0
  /\ calls = 3 /\ posts = 2 /\ gets = 1
  /\ op[1] = "logIn" /\ pc[1] = "idle" /\ result[1] = "true"
  /\ op[2] = "none"

\* C21: while isRollover is false no timer of rolloverCheck() is pending and no
\* timer-driven probe is in flight; a timer fires only while isRollover is true,
\* and a caller reaches the maintenance probe of logIn()'s catch only from a
\* handshake request that failed.
C21_NoProbingWhileUp ==
  [][/\ ~isRollover => (timers = 0 /\ tprobes = 0)
     /\ ~isRollover' => (timers' = 0 /\ tprobes' = 0)
     /\ tprobes' > tprobes => isRollover
     /\ \A c \in Callers :
          (pc[c] # "rcheck" /\ pc'[c] = "rcheck") =>
            /\ pc[c] \in {"post", "status"}
            /\ ~isRollover /\ tprobes = 0]_vars

C21_Witness ==
  /\ ~isRollover /\ postRolloverLatch /\ timers = 0 /\ tprobes = 0
  /\ \E c \in Callers : pc[c] = "rcheck"

\* The loopChatBot() chains that still poll or wait for their next poll.
RunningLoops == {c \in Callers : lpc[c] \in {"poll", "wait"}}

\* C22 (as claimed): a poll cycle of a loop ends in the wait for the next one,
\* whatever checkMessages() and checkKmails() were answered.
C22_LoopRescheduled ==
  [][\A c \in Callers :
       (lpc[c] = "poll" /\ lpc'[c] # "poll") => lpc'[c] = "wait"]_vars

\* C29 (as claimed): at most one loopChatBot() chain runs, however startChatBot()
\* is called.
C29_SingleLoop == Cardinality(RunningLoops) <= 1

\* C30 (as claimed): no kmail is emitted as a "kmail" event more than once.
C30_KmailOnce == \A k \in Kmails : kmailEmits[k] <= 1

\* The j-th smallest element of a set of positions.
Nth(S, j) == CHOOSE i \in S : Cardinality({k \in S : k < i}) = j - 1

\* C23: when checkMessages() has processed a response, the events it emitted
\* are, in the order of the response, one for each message that has a sender
\* and a text and whose type is public, private or system: on the topic
\* "public", "whisper" or "system", with the text of the message and the
\* sender's id as a number.  No other message, and no response without
\* messages, emits anything.
C23_MessagesEmitted ==
  [][(msgPc[1] = "pending" /\ msgPc'[1] = "done") =>
       LET msgs == IF response'.kind = "msgs" THEN response'.msgs ELSE <<>>
           due == {i \in DOMAIN msgs :
                     /\ msgs[i].who # "absent" /\ msgs[i].msg # "absent"
                     /\ msgs[i].type \in {"public", "private", "system"}}
       IN
       /\ Len(emitted') = Cardinality(due)
       /\ \A j \in 1..Len(emitted') :
            LET m == msgs[Nth(due, j)] IN
            /\ emitted'[j].topic =
                 (IF m.type = "private" THEN "whisper" ELSE m.type)
            /\ emitted'[j].msg = m.msg
            /\ emitted'[j].id \in Int
            /\ m.who = "7" => emitted'[j].id = 7
            /\ m.who = "-1" => emitted'[j].id = 0 - 1]_vars

C23_Witness ==
  /\ msgPc[1] = "done" /\ cycles = 1
  /\ response.kind = "msgs" /\ Len(response.msgs) = 2
  /\ response.msgs[1] = [who |-> "7", msg |-> "absent", type |-> "public"]
  /\ response.msgs[2] = [who |-> "-1", msg |-> "text", type |-> "private"]
  /\ emitted = <<[topic |-> "whisper", id |-> 0 - 1, msg |-> "text"]>>

\* C24: the first resolveKoLImage() returns a path that starts with http:// or
\* https:// (in either case of letters) as it is, and any other path as the
\* image host followed by the path without its leading /iii or /images; the
\* second, applied to that result, returns it unchanged.
C24_ResolveIdempotent ==
  [][/\ applied = 0 =>
          \/ /\ Len(path) >= 3
             /\ path[1] \in {"http:", "https:", "HTTPS:"}
             /\ path[2] = "/" /\ path[3] = "/"
             /\ url' = path
          \/ /\ ~(Len(path) >= 3 /\ path[1] \in {"http:", "https:", "HTTPS:"}
                   /\ path[2] = "/" /\ path[3] = "/")
             /\ Len(path) >= 2 /\ path[1] = "/" /\ path[2] \in {"iii", "images"}
             /\ url' = ImageHost \o [i \in 1..(Len(path) - 2) |-> path[i + 2]]
          \/ /\ ~(Len(path) >= 3 /\ path[1] \in {"http:", "https:", "HTTPS:"}
                   /\ path[2] = "/" /\ path[3] = "/")
             /\ ~(Len(path) >= 2 /\ path[1] = "/"
                   /\ path[2] \in {"iii", "images"})
             /\ url' = ImageHost \o path
     /\ applied = 1 => url' = url]_vars

C24_Witness ==
  /\ applied = 2
  /\ path = <<"/", "iii", "/", "x">>
  /\ url = <<"https:", "/", "/", "x", "/", "x">>

\* C25: the second visitUrl() of an addToWhitelist(), which carries the
\* whitelist-add request, starts only in the step in which the join request of
\* the same call was answered with a page that shows the bot in the clan; from
\* there to the return of the call the bot is in that clan, no join request of
\* another call being answered in between; and a call that ends without such
\* an answer to its join request returns false, with no second visitUrl().
C25_JoinBeforeWhitelist ==
  [][\A c \in Procs :
       /\ (op[c] # "whitelist" /\ op'[c] = "whitelist") =>
            /\ op[c] = "joinClan" /\ pc[c] = "target"
            /\ sent[c] \in validSess
            /\ botClan' = c
       /\ (op[c] = "whitelist" /\ pc[c] # "idle") => botClan = c
       /\ (op'[c] = "whitelist" /\ pc'[c] # "idle") => botClan' = c
       /\ (op[c] = "joinClan" /\ pc[c] \notin {"idle", "waitAction"}
             /\ pc'[c] = "idle" /\ (op'[c] = "joinClan" \/ botClan' # c)) =>
            (op'[c] = "joinClan" /\ result'[c] = "false")]_vars

C25_Witness ==
  \E c, d \in Procs :
    /\ c # d /\ botClan = c
    /\ op[c] = "whitelist" /\ pc[c] = "target"
    /\ op[d] = "whitelist" /\ pc[d] = "idle" /\ result[d] = "true"

\* C26 (as claimed): an interaction is told that the player was added to all
\* managed clan whitelists only if the whitelist-add request of every clan
\* completed.
C26_SuccessOnlyWhenAdded ==
  \A c \in Callers : cmdReply[c] = "added" => cmdMissed[c] = {}

C28_LogInReturns ==
  \A c \in Callers :
    (c \in Range(loginMutex)) ~>
      (c \notin Range(loginMutex) /\ pc[c] = "idle" /\ loginRes[c] # "none")

C28_Witness ==
  /\ calls = 2 /\ posts = 2 /\ gets = 1 /\ emits = 1
  /\ loginMutex = <<>>
  /\ \A c \in Callers : pc[c] = "idle" /\ loginRes[c] # "true"

\* ------------------------------------------------ WikiClient.reloadMafiaData
\* wiki.ts:399: the data is stale when the last load completed more than an
\* hour ago; lastDownloadTime is -1 until a load has completed.
Stale == wiki.lastDownloadTime < wiki.now - Hour

\* reloadMafiaData() is called (wiki.ts:398-405; rescan.ts:12): with stale data
\* it clears the thing map and starts loadMafiaData(), whose first download it
\* awaits; otherwise it returns false.
ReloadMafiaData(c) ==
  /\ wiki.pc[c] = "idle"
  /\ wiki.calls < MaxReloads
  /\ wiki' = IF Stale
             THEN [wiki EXCEPT !.thingMap = "empty", !.pc[c] = "loading",
                               !.result[c] = "none", !.calls = @ + 1]
             ELSE [wiki EXCEPT !.result[c] = "false", !.calls = @ + 1]
  /\ UNCHANGED <<kolVars, alerts, claim, token, ident, svg, old>>

\* loadMafiaData() comes to its end (wiki.ts:374-396): after the last download
\* it stamps lastDownloadTime and reloadMafiaData() returns true; a download
\* that fails rejects both, with the map part filled and the stamp as it was.
LoadMafiaDataReturn(c, ok) ==
  /\ wiki.pc[c] = "loading"
  /\ wiki' = IF ok
             THEN [wiki EXCEPT !.thingMap = "built",
                               !.lastDownloadTime = wiki.now,
                               !.pc[c] = "idle", !.result[c] = "true"]
             ELSE [wiki EXCEPT !.thingMap = "partial", !.pc[c] = "idle",
                               !.result[c] = "error"]
  /\ UNCHANGED <<kolVars, alerts, claim, token, ident, svg, old>>

\* half an hour passes
WikiTick ==
  /\ wiki.now < MaxTime
  /\ wiki' = [wiki EXCEPT !.now = @ + 1]
  /\ UNCHANGED <<kolVars, alerts, claim, token, ident, svg, old>>

NextWiki ==
  \/ \E c \in Callers : ReloadMafiaData(c)
  \/ \E c \in Callers, ok \in BOOLEAN : LoadMafiaDataReturn(c, ok)
  \/ WikiTick

\* the wiki client after construction (wiki.ts:161, 168), its clock at a time
\* of day far past the first hour, and no caller of reloadMafiaData() yet
WikiInit ==
  /\ KolInit /\ OtherInit("wiki")
  /\ wiki = [lastDownloadTime |-> -1, thingMap |-> "empty", now |-> Hour,
             pc |-> [c \in Callers |-> "idle"],
             result |-> [c \in Callers |-> "none"], calls |-> 0]

SpecWiki == WikiInit /\ [][NextWiki]_vars

\* C31: reloadMafiaData() reloads at most once per hour: a call made less than
\* an hour after the previous load completed, or while a reload is still in
\* progress, returns false and neither clears nor reloads the thing map.
C31_ReloadOncePerHour ==
  [][\A c \in Callers :
       (/\ wiki.pc[c] = "idle" /\ wiki'.calls = wiki.calls + 1
        /\ wiki'.result[c] # wiki.result[c] \/ wiki'.pc[c] # wiki.pc[c]
        /\ \/ \E d \in Callers : wiki.pc[d] = "loading"
           \/ /\ wiki.lastDownloadTime >= 0
              /\ wiki.now - wiki.lastDownloadTime < Hour)
       => /\ wiki'.pc[c] = "idle" /\ wiki'.result[c] = "false"
          /\ wiki'.thingMap = wiki.thingMap]_vars

\* ------------------------------------------------------ DiscordClient.alert
\* Alerts are numbered in the order in which they are raised.
\* initAlertsChannel()'s loop (part_003:794-798): the head of the queue is
\* taken off and handed to send(), which the loop awaits; an empty queue ends
\* the method.
DrainNext(a) ==
  IF a.alertsQueue = <<>>
  THEN [a EXCEPT !.pc = "done"]
  ELSE [a EXCEPT !.alertsQueue = Tail(@),
                 !.sent = Append(@, Head(a.alertsQueue)), !.pc = "drain"]

\* the client is ready: its listener asks for the alerts channel
\* (part_003:721-722)
ClientReady ==
  /\ alerts.pc = "start"
  /\ alerts' = [alerts EXCEPT !.pc = "fetch"]
  /\ UNCHANGED <<kolVars, wiki, claim, token, ident, svg, old>>

\* channels.fetch() returns (part_003:722-724, 792-798): a text channel is
\* stored by initAlertsChannel() before its loop starts; another one ends the
\* listener
ChannelFetched(textBased) ==
  /\ alerts.pc = "fetch"
  /\ alerts' = IF textBased
               THEN DrainNext([alerts EXCEPT !.alertsChannel = TRUE])
               ELSE [alerts EXCEPT !.pc = "done"]
  /\ UNCHANGED <<kolVars, wiki, claim, token, ident, svg, old>>

\* the send() awaited by the loop settles (part_003:797): fulfilled, the loop
\* goes on; rejected, initAlertsChannel() is rejected with the queue as it is
DrainSendReturn(ok) ==
  /\ alerts.pc = "drain"
  /\ alerts' = IF ok THEN DrainNext(alerts) ELSE [alerts EXCEPT !.pc = "done"]
  /\ UNCHANGED <<kolVars, wiki, claim, token, ident, svg, old>>

\* alert() (part_003:801-854): nothing in debug mode; queued while there is no
\* channel; otherwise handed to send() at once
Alert ==
  /\ alerts.raised < MaxAlerts
  /\ LET id == alerts.raised + 1
     IN  alerts' =
           IF alerts.debug THEN [alerts EXCEPT !.raised = id]
           ELSE IF ~alerts.alertsChannel
             THEN [alerts EXCEPT !.raised = id,
                                 !.alertsQueue = Append(@, id)]
           ELSE [alerts EXCEPT !.raised = id, !.sent = Append(@, id)]
  /\ UNCHANGED <<kolVars, wiki, claim, token, ident, svg, old>>

NextAlerts ==
  \/ ClientReady
  \/ \E textBased \in BOOLEAN : ChannelFetched(textBased)
  \/ \E ok \in BOOLEAN : DrainSendReturn(ok)
  \/ Alert

\* the Discord client after construction: no alerts channel, nothing queued,
\* nothing raised or sent, the ClientReady listener not yet run; a run is in
\* debug mode or outside it (config.DEBUG)
AlertsInit ==
  /\ KolInit /\ OtherInit("alerts")
  /\ \E debug \in BOOLEAN :
       alerts = [alertsChannel |-> FALSE, alertsQueue |-> <<>>,
                 sent |-> <<>>, raised |-> 0, pc |-> "start",
                 debug |-> debug]

SpecAlerts == AlertsInit /\ [][NextAlerts]_vars

\* C32: every alert raised outside debug mode is sent to the alerts channel
\* exactly once and in the order in which the alerts were raised, those queued
\* before the channel was initialised and those raised while
\* initAlertsChannel() drains the queue included: at any time, what has been
\* sent is without repetition and in the order of raising.
C32_AlertsInOrder ==
  \A i, j \in DOMAIN alerts.sent : i < j => alerts.sent[i] < alerts.sent[j]

\* ------------------------------------------- /claim and synchroniseRoles
\* the players whose row carries a user's discordId
LinkedTo(rows, u) == {p \in Players : rows[p] = u}

\* prisma.player.updateMany (claim.ts:94-97): every row of the user unlinked
Unlinked(rows, u) == [p \in Players |-> IF rows[p] = u THEN 0 ELSE rows[p]]

\* execute() is called with a token (claim.ts:53-78): without a valid one it
\* replies and returns; with one for playerId it defers and looks the player up
ClaimExecute(c, u, p, valid) ==
  /\ claim.pc[c] = "idle"
  /\ \A d \in Callers : d < c => claim.pc[d] # "idle"
  /\ claim' = [claim EXCEPT !.pc[c] = IF valid THEN "player" ELSE "done",
                            !.user[c] = u, !.playerId[c] = p]
  /\ UNCHANGED <<kolVars, wiki, alerts, token, ident, svg, old>>

\* getPartialPlayerFromId() and getPlayerInformation() have returned
\* (claim.ts:78-97): without a player execute() returns, with one it asks for
\* the user's rows to be unlinked
ClaimPlayerReturn(c, found) ==
  /\ claim.pc[c] = "player"
  /\ claim' = [claim EXCEPT !.pc[c] = IF found THEN "unlink" ELSE "done"]
  /\ UNCHANGED <<kolVars, wiki, alerts, token, ident, svg, old>>

\* updateMany returns (claim.ts:94-112): the rows are unlinked, the upsert
\* of the player's row is asked for
UpdateManyReturn(c) ==
  /\ claim.pc[c] = "unlink"
  /\ claim' = [claim EXCEPT !.rows = Unlinked(@, claim.user[c]),
                            !.pc[c] = "upsert"]
  /\ UNCHANGED <<kolVars, wiki, alerts, token, ident, svg, old>>

\* upsert returns (claim.ts:99-119): the player's row carries the user's
\* discordId; the guild, the role and the member are fetched
UpsertReturn(c) ==
  /\ claim.pc[c] = "upsert"
  /\ claim' = [claim EXCEPT !.rows[claim.playerId[c]] = claim.user[c],
                            !.pc[c] = "member"]
  /\ UNCHANGED <<kolVars, wiki, alerts, token, ident, svg, old>>

\* the fetches return (claim.ts:114-121): without the role the reply is sent;
\* members.fetch() of a user who is not in the guild rejects execute();
\* otherwise the role is asked to be added
ClaimMemberReturn(c) ==
  /\ claim.pc[c] = "member"
  /\ claim' = [claim EXCEPT !.pc[c] =
                 IF ~claim.role THEN "done"
                 ELSE IF claim.user[c] \in claim.guild THEN "add"
                 ELSE "done"]
  /\ UNCHANGED <<kolVars, wiki, alerts, token, ident, svg, old>>

\* roles.add() returns (claim.ts:120-132): the user holds the role, the reply
\* is sent
ClaimAddReturn(c) ==
  /\ claim.pc[c] = "add"
  /\ claim' = [claim EXCEPT !.holders = @ \cup {claim.user[c]},
                            !.pc[c] = "done"]
  /\ UNCHANGED <<kolVars, wiki, alerts, token, ident, svg, old>>

\* the client is ready: synchroniseRoles() fetches the guild and the role
\* (claim.ts:136-149, 182); without the role it alerts and returns, with it
\* it asks for the players with a discordId
SyncRoleReturn ==
  /\ claim.sync = "start"
  /\ claim' = [claim EXCEPT !.sync = IF claim.role THEN "find" ELSE "noRole"]
  /\ UNCHANGED <<kolVars, wiki, alerts, token, ident, svg, old>>

RECURSIVE DiscordIds(_, _)
\* claim.ts:147-150: the discordId of every linked row, one entry for each row
DiscordIds(rows, p) ==
  IF p > NumPlayers THEN <<>>
  ELSE IF rows[p] = 0 THEN DiscordIds(rows, p + 1)
  ELSE <<rows[p]>> \o DiscordIds(rows, p + 1)

RECURSIVE Splice(_, _)
\* claim.ts:153-157: expectedMembers without the first entry of each holder
Splice(expected, members) ==
  IF expected = <<>> THEN <<>>
  ELSE IF Head(expected) \in members
    THEN Splice(Tail(expected), members \ {Head(expected)})
  ELSE <<Head(expected)>> \o Splice(Tail(expected), members)

\* after the first loop (claim.ts:152-159) the second one fetches the member
\* of each entry left, and the function ends when none is left
SyncAfterRemovals(cl) ==
  IF cl.toRemove # {} THEN [cl EXCEPT !.sync = "remove"]
  ELSE IF cl.missing # <<>> THEN [cl EXCEPT !.sync = "fetch"]
  ELSE [cl EXCEPT !.sync = "done"]

\* findMany returns (claim.ts:147-159): the loop over role.members, a
\* collection made here, drops the expected holders from expectedMembers and
\* removes the role from the others, one awaited request at a time
FindManyReturn ==
  /\ claim.sync = "find"
  /\ LET expected == DiscordIds(claim.rows, 1)
         members == claim.holders
         listed == {expected[i] : i \in DOMAIN expected}
     IN  claim' = SyncAfterRemovals(
                    [claim EXCEPT !.toRemove = members \ listed,
                                  !.missing = Splice(expected, members)])
  /\ UNCHANGED <<kolVars, wiki, alerts, token, ident, svg, old>>

\* roles.remove() returns (claim.ts:155): the next holder, in the order of the
\* collection, is dealt with; a rejection rejects synchroniseRoles()
SyncRemoveReturn(m, ok) ==
  /\ claim.sync = "remove"
  /\ m \in claim.toRemove
  /\ claim' = IF ok
              THEN SyncAfterRemovals([claim EXCEPT !.holders = @ \ {m},
                                                   !.toRemove = @ \ {m}])
              ELSE [claim EXCEPT !.sync = "failed"]
  /\ UNCHANGED <<kolVars, wiki, alerts, token, ident, svg, old>>

\* members.fetch() of a missing holder returns (claim.ts:161-165): a user who
\* left the guild is passed over, the role of another is asked to be added
SyncFetchReturn ==
  /\ claim.sync = "fetch"
  /\ claim' = IF Head(claim.missing) \in claim.guild
              THEN [claim EXCEPT !.sync = "add"]
              ELSE SyncAfterRemovals([claim EXCEPT !.missing = Tail(@)])
  /\ UNCHANGED <<kolVars, wiki, alerts, token, ident, svg, old>>

\* roles.add() returns (claim.ts:164)
SyncAddReturn(ok) ==
  /\ claim.sync = "add"
  /\ claim' = IF ok
              THEN SyncAfterRemovals(
                     [claim EXCEPT !.holders = @ \cup {Head(claim.missing)},
                                   !.missing = Tail(@)])
              ELSE [claim EXCEPT !.sync = "failed"]
  /\ UNCHANGED <<kolVars, wiki, alerts, token, ident, svg, old>>

NextClaim ==
  \/ \E c \in Callers, u \in Users, p \in Players, valid \in BOOLEAN :
       ClaimExecute(c, u, p, valid)
  \/ \E c \in Callers, found \in BOOLEAN : ClaimPlayerReturn(c, found)
  \/ \E c \in Callers : UpdateManyReturn(c)
  \/ \E c \in Callers : UpsertReturn(c)
  \/ \E c \in Callers : ClaimMemberReturn(c)
  \/ \E c \in Callers : ClaimAddReturn(c)
  \/ SyncRoleReturn
  \/ FindManyReturn
  \/ \E m \in Users, ok \in BOOLEAN : SyncRemoveReturn(m, ok)
  \/ SyncFetchReturn
  \/ \E ok \in BOOLEAN : SyncAddReturn(ok)

\* nothing of claim.ts running, with the tables that earlier runs can have
\* left: the player table (each player's discordId, a user linked to at most
\* one player), the users in the guild, whether the guild has the verified
\* role (config.VERIFIED_ROLE_ID) and its holders
InitClaim ==
  /\ KolInit /\ OtherInit("claim")
  /\ \E rows \in [Players -> Users \cup {0}], guild \in SUBSET Users,
        role \in BOOLEAN :
       \E holders \in SUBSET (IF role THEN guild ELSE {}) :
         /\ \A u \in Users : Cardinality(LinkedTo(rows, u)) <= 1
         /\ claim = [rows |-> rows, guild |-> guild, role |-> role,
                     holders |-> holders,
                     pc |-> [c \in Callers |-> "idle"],
                     user |-> [c \in Callers |-> 0],
                     playerId |-> [c \in Callers |-> 0],
                     sync |-> "start", toRemove |-> {}, missing |-> <<>>]

SpecClaim == InitClaim /\ [][NextClaim]_vars

\* C33: a Discord account is linked to at most one player record: after any
\* sequence of /claim executions, two concurrent ones of the same user with
\* valid tokens for different players included, at most one player row carries
\* the user's discordId.
C33_OneLinkedPlayer ==
  \A u \in Users : Cardinality(LinkedTo(claim.rows, u)) <= 1

\* C35: when synchroniseRoles() completes without error, the holders of the
\* verified role are exactly the guild members whose Discord id is linked to
\* a player record (stated for the completions at which no /claim is in the
\* middle of its execution, so that no half-made link is counted).
C35_RolesSynchronised ==
  [][(/\ claim.sync # "done" /\ claim'.sync = "done"
      /\ \A c \in Callers : claim'.pc[c] \in {"idle", "done"})
       => claim'.holders =
            {u \in claim'.guild : LinkedTo(claim'.rows, u) # {}}]_vars

\* ------------------------------------- oauf.generatePlayer / checkPlayer
\* Strings of digits are sequences of digit values, the first character first.
RECURSIVE Digits(_, _)
\* Number.prototype.toString(base) of a whole number that is not negative
Digits(n, base) ==
  IF n < base THEN <<n>> ELSE Append(Digits(n \div base, base), n % base)

RECURSIVE Parse(_, _, _)
\* Number(string) and parseInt(string, base) of a string of digits, read from
\* the left onto the value so far
Parse(str, base, sofar) ==
  IF str = <<>> THEN sofar
  ELSE Parse(Tail(str), base, sofar * base + Head(str))

\* claim.ts:17-18
intDiv(num, div) == <<num \div div, num % div>>

\* String.prototype.padStart(CodeLength, "0") (claim.ts:35)
\* (mutant: the code is not padded)
PadStart_None(str) == str
PadStart(str) ==
  [i \in 1..(CodeLength - Len(str)) |-> 0] \o str

\* claim.ts:25-28: the decimal digits of the player id and the code, read as
\* one number and written in hexadecimal
generatePlayer(playerId, code) ==
  Digits(Parse(Digits(playerId, 10) \o code, 10, 0), 16)

\* claim.ts:29-36: the player id and the code that checkPlayer() hands to
\* oauf.check()
checkPlayer(tok) ==
  LET decoded == Parse(tok, 16, 0)
      parts == intDiv(decoded, Million)
  IN  [playerId |-> parts[1], code |-> PadStart(Digits(parts[2], 10))]

\* the bot answers a "claim" whisper with a token (claim.ts:169-179)
GeneratePlayer ==
  /\ token.pc = "start"
  /\ token' = [token EXCEPT !.token = generatePlayer(token.playerId,
                                                     token.code),
                            !.pc = "generated"]
  /\ UNCHANGED <<kolVars, wiki, alerts, claim, ident, svg, old>>

\* /claim is run with the token (claim.ts:66)
CheckPlayer ==
  /\ token.pc = "generated"
  /\ token' = [token EXCEPT !.decoded = checkPlayer(token.token),
                            !.pc = "checked"]
  /\ UNCHANGED <<kolVars, wiki, alerts, claim, ident, svg, old>>

NextToken == GeneratePlayer \/ CheckPlayer

\* a token about to be made for a player, with the one-time code of six
\* digits that oauf.generate() gives
TokenInit ==
  /\ KolInit /\ OtherInit("token")
  /\ \E playerId \in 1..MaxPlayerId,
        code \in [1..CodeLength -> 0..MaxDigit \cup {9}] :
       token = [playerId |-> playerId, code |-> code, token |-> <<>>,
                decoded |-> [playerId |-> 0, code |-> <<>>],
                pc |-> "start"]

SpecToken == TokenInit /\ [][NextToken]_vars

\* C34: for every player id and every six-digit one-time code, codes with
\* leading zeros included, whose concatenation stays within exact integer
\* range, checkPlayer() reads from the token of generatePlayer() the same
\* player id and the same six-digit code.
C34_TokenRoundTrip ==
  token.pc = "checked"
    => /\ token.decoded.playerId = token.playerId
       /\ token.decoded.code = token.code

\* a token of a code with leading zeros, for a player id of two digits, read
C34_Witness ==
  /\ token.pc = "checked"
  /\ token.playerId > 9
  /\ token.code[1] = 0 /\ token.code[2] = 0 /\ token.code[6] = 9
  /\ Len(token.token) > 1

\* ---------------------------------------------------- validPlayerIdentifier
\* A character is given by its kind: a letter, a digit, the underscore, the
\* space, or any other character.
Chars == {"a", "1", "_", " ", "!"}

\* the character classes of whois.ts:37
IsAlpha(ch) == ch = "a"
IsDigit(ch) == ch = "1"
IsNameChar(ch) == ch \in {"a", "1", "_", " "}

\* ^([a-zA-Z][a-zA-Z0-9_ ]{2,29}): at the start of the string, a letter and
\* then RestMin to RestMax name characters; the branch is not tied to the end
MatchesNameAtStart(str) ==
  /\ Len(str) >= 1 + RestMin
  /\ IsAlpha(str[1])
  /\ \E k \in RestMin..RestMax :
       /\ 1 + k <= Len(str)
       /\ \A i \in 2..(1 + k) : IsNameChar(str[i])

\* [0-9]+$: one digit or more at the end of the string; the branch is not
\* tied to the start
MatchesDigitsAtEnd(str) ==
  \E from \in 1..Len(str) : \A i \in from..Len(str) : IsDigit(str[i])

\* whois.ts:34-38: RegExp.prototype.test() of the two branches of the pattern
validPlayerIdentifier(str) ==
  MatchesNameAtStart(str) \/ MatchesDigitsAtEnd(str)

\* the function is called (whois.ts:34)
ValidPlayerIdentifier ==
  /\ ident.pc = "start"
  /\ ident' = [ident EXCEPT !.valid = validPlayerIdentifier(ident.identifier),
                            !.pc = "tested"]
  /\ UNCHANGED <<kolVars, wiki, alerts, claim, token, svg, old>>

NextIdent == ValidPlayerIdentifier

\* an identifier about to be given to validPlayerIdentifier(): the strings
\* of at most MaxIdent characters
IdentInit ==
  /\ KolInit /\ OtherInit("ident")
  /\ \E identifier \in UNION {[1..n -> Chars] : n \in 0..MaxIdent} :
       ident = [identifier |-> identifier, valid |-> FALSE, pc |-> "start"]

SpecIdent == IdentInit /\ [][NextIdent]_vars

\* C36: validPlayerIdentifier() accepts exactly the strings that are either
\* entirely decimal digits (a player id) or a username of 3 to 30 characters
\* that starts with a letter and contains only letters, digits, underscores
\* and spaces; every other string is rejected.
C36_ExactlyIdsAndNames ==
  ident.pc = "tested"
    => (ident.valid <=>
          LET str == ident.identifier
          IN  \/ Len(str) >= 1 /\ \A i \in 1..Len(str) : IsDigit(str[i])
              \/ /\ Len(str) \in (1 + RestMin)..(1 + RestMax)
                 /\ IsAlpha(str[1])
                 /\ \A i \in 2..Len(str) : IsNameChar(str[i]))

\* ---------------------------------------------------------------- renderSvg
\* Converters and timers are numbered as they are made; 0 stands for null.
\* part_002:8: a converter has to be made
NeedsConverter == svg.converter = 0 \/ svg.converter \in svg.destroyed

\* renderSvg() is called (part_002:7-20): when needed it makes a converter,
\* clears the timer that timeout names and sets a new one; then it calls
\* convert() of the converter and awaits it
RenderSvg(c) ==
  /\ svg.pc[c] = "idle"
  /\ \A d \in Callers : d < c => svg.pc[d] # "idle"
  /\ svg.renders < MaxRenders
  /\ svg' =
       IF NeedsConverter
       THEN [svg EXCEPT !.converter = svg.made + 1, !.made = @ + 1,
                        !.timeout = svg.made + 1,
                        !.timers = (@ \ {svg.timeout}) \cup {svg.made + 1},
                        !.pc[c] = "convert", !.using[c] = svg.made + 1,
                        !.renders = @ + 1]
       ELSE [svg EXCEPT !.pc[c] = "convert", !.using[c] = svg.converter,
                        !.renders = @ + 1]
  /\ UNCHANGED <<kolVars, wiki, alerts, claim, token, ident, old>>

\* convert() settles and renderSvg() with it (part_002:20)
ConvertReturn(c) ==
  /\ svg.pc[c] = "convert"
  /\ svg' = [svg EXCEPT !.pc[c] = "idle", !.using[c] = 0]
  /\ UNCHANGED <<kolVars, wiki, alerts, claim, token, ident, old>>

\* a timer set 60 s ago fires (part_002:14-17): the converter that the
\* variable names now is destroyed and timeout is null
DestroyTimerFire(h) ==
  /\ h \in svg.timers
  /\ svg' = [svg EXCEPT !.destroyed = @ \cup ({svg.converter} \ {0}),
                        !.timeout = 0, !.timers = @ \ {h}]
  /\ UNCHANGED <<kolVars, wiki, alerts, claim, token, ident, old>>

NextSvg ==
  \/ \E c \in Callers : RenderSvg(c)
  \/ \E c \in Callers : ConvertReturn(c)
  \/ \E h \in 1..MaxRenders : DestroyTimerFire(h)

\* part_002:4-5: no converter, no timer; no call of renderSvg() yet
SvgInit ==
  /\ KolInit /\ OtherInit("svg")
  /\ svg = [converter |-> 0, timeout |-> 0, made |-> 0, destroyed |-> {},
            timers |-> {}, pc |-> [c \in Callers |-> "idle"],
            using |-> [c \in Callers |-> 0], renders |-> 0]

SpecSvg == SvgInit /\ [][NextSvg]_vars

\* C37: renderSvg() never calls convert() on a converter that has been
\* destroyed, and no conversion in progress has its converter destroyed
\* underneath it, for every interleaving of renderSvg() calls with the 60 s
\* destroy timer; at most one destroy timer is pending at any time.
C37_ConverterAlive ==
  /\ \A c \in Callers :
       svg.pc[c] = "convert" => svg.using[c] \notin svg.destroyed
  /\ Cardinality(svg.timers) <= 1

\* ------------------------------------------- the older client: KOLClient.logIn
\* part_003:134: new credentials are fetched when the last ones are more than
\* a minute old; fetched is -1 until credentials have been fetched.
\* (mutant: they are fetched at every call)
FetchNeeded_Always(o) == TRUE
FetchNeeded(o) == o.credentials.fetched < o.now - Minute

RECURSIVE OldGrant(_)
\* loginMutex.runExclusive (part_003:132-168): the callback of the first in
\* line runs; with fresh credentials it logs the block and returns, and the
\* next in line follows at once; otherwise it posts to login.php and awaits.
OldGrant(o) ==
  IF o.loginMutex = <<>> THEN o
  ELSE LET c == Head(o.loginMutex)
       IN  IF FetchNeeded(o)
           THEN [o EXCEPT !.pc[c] = "post", !.requests = @ + 1]
           ELSE OldGrant([o EXCEPT !.loginMutex = Tail(@), !.pc[c] = "idle",
                                   !.result[c] = "blocked"])

\* the callback of the holder has come to its end: the lock goes on
OldRelease(o, c, res) ==
  OldGrant([o EXCEPT !.loginMutex = Tail(@), !.pc[c] = "idle",
                     !.result[c] = res])

\* logIn() is called (part_003:131-132): the caller takes the lock when it is
\* free and waits in line otherwise
OldLogIn(c) ==
  /\ old.pc[c] = "idle"
  /\ \A d \in Callers : d < c => old.pc[d] # "idle"
  /\ old.calls < MaxCalls
  /\ LET o == [old EXCEPT !.calls = @ + 1, !.result[c] = "none",
                          !.loginMutex = Append(@, c)]
     IN  old' = IF old.loginMutex = <<>> THEN OldGrant(o)
                ELSE [o EXCEPT !.pc[c] = "wait"]
  /\ UNCHANGED <<kolVars, wiki, alerts, claim, token, ident, svg>>

\* the POST to login.php returns (part_003:135-153): a 302 is followed by
\* the status request to api.php; any other outcome throws, which the catch
\* logs, with the credentials as they were
OldPostReturn(c, redirected) ==
  /\ old.pc[c] = "post"
  /\ old' = IF redirected
            THEN [old EXCEPT !.pc[c] = "status", !.requests = @ + 1]
            ELSE OldRelease(old, c, "failed")
  /\ UNCHANGED <<kolVars, wiki, alerts, claim, token, ident, svg>>

\* the status request returns (part_003:144-166): the credentials are
\* replaced and stamped with the time, whether or not the answer holds a
\* pwd; a request that fails throws
OldStatusReturn(c, answer) ==
  /\ old.pc[c] = "status"
  /\ old' = IF answer = "fail"
            THEN OldRelease(old, c, "failed")
            ELSE OldRelease(
                   [old EXCEPT !.credentials =
                                 [fetched |-> old.now,
                                  sessionCookies |-> old.handshakes + 1,
                                  pwdhash |-> answer = "pwd"],
                               !.handshakes = @ + 1],
                   c, "fetched")
  /\ UNCHANGED <<kolVars, wiki, alerts, claim, token, ident, svg>>

\* half a minute passes
OldTick ==
  /\ old.now < MaxTime
  /\ old' = [old EXCEPT !.now = @ + 1]
  /\ UNCHANGED <<kolVars, wiki, alerts, claim, token, ident, svg>>

NextOld ==
  \/ \E c \in Callers : OldLogIn(c)
  \/ \E c \in Callers, redirected \in BOOLEAN : OldPostReturn(c, redirected)
  \/ \E c \in Callers, answer \in {"pwd", "nopwd", "fail"} :
       OldStatusReturn(c, answer)
  \/ OldTick

\* the older client after construction (part_003:119), its clock at a time
\* of day far past the first minute, and no caller of logIn() yet
OldInit ==
  /\ KolInit /\ OtherInit("old")
  /\ old = [credentials |-> [fetched |-> -1, sessionCookies |-> 0,
                             pwdhash |-> FALSE],
            now |-> Minute, loginMutex |-> <<>>,
            pc |-> [c \in Callers |-> "idle"],
            result |-> [c \in Callers |-> "none"],
            calls |-> 0, requests |-> 0, handshakes |-> 0]

SpecOld == OldInit /\ [][NextOld]_vars

\* C38: in the older client, logIn() performs at most one successful
\* handshake per 60 seconds: a call made less than 60 seconds after the last
\* successful credential fetch issues no request and leaves the credentials
\* unchanged, while a failed handshake does not start the 60-second block
\* (it leaves the stamp as it was).
C38_OneHandshakePerMinute ==
  [][/\ (/\ old'.calls = old.calls + 1
         /\ old.credentials.fetched >= 0
         /\ old.now - old.credentials.fetched < Minute)
          => /\ old'.requests = old.requests
             /\ old'.credentials = old.credentials
             /\ old'.pc = old.pc
     /\ (old'.handshakes # old.handshakes /\ old.credentials.fetched >= 0)
          => old'.credentials.fetched - old.credentials.fetched > Minute
     /\ (\E c \in Callers : old.result[c] # "failed"
                            /\ old'.result[c] = "failed")
          => old'.credentials = old.credentials]_vars

\* a call that came half a minute after a handshake and was blocked, after
\* an earlier handshake had failed
C38_Witness ==
  /\ old.result[1] = "blocked" /\ old.pc[1] = "idle"
  /\ old.result[2] = "none"
  /\ old.handshakes = 1 /\ old.calls = 3 /\ old.requests = 3
  /\ old.now - old.credentials.fetched = 1

====
